---- MODULE Spec2Model ----
(***************************************************************************)
(* Model of the fingerprinting engine of http-keepalive:                  *)
(*   - the connection probe (internal/tcp AnalyzeHandshake and the legacy  *)
(*     analyzeTCPHandshake of server.go) with its byte decoder,            *)
(*   - the per-IP domain analysis loop (AnalyzeDomain),                    *)
(*   - the CDN header evidence collector (DetectCDNWithConfidence).        *)
(* Strings are TLA+ strings; byte buffers are sequences of 0..255.         *)
(***************************************************************************)
EXTENDS Integers, Sequences, FiniteSets, TLC

VARIABLES
    \* connection probe
    impl,        \* which probe runs: "modern", "legacy" or "retry" ("" = no probe)
    pc,          \* position of the probe
    conn,        \* "none", "tcp" or "tls"
    wire,        \* the bytes the peer will send
    retries,     \* loop counter of the read loop
    totalRead,   \* bytes accumulated in buf
    readErr,     \* legacy: last non-timeout read error seen
    partial,     \* modern: the Response under construction
    result,      \* AnalysisResult / TCPResults returned
    goErr,       \* the Go error returned ("" = nil)
    readOut,     \* what readWithRetries returned
    log,         \* history of I/O operations performed
    \* byte decoder, as a function under test
    buf,         \* input slice: [bytes, cap]
    decoded,     \* its outcome
    \* header evidence collector, as a function under test
    headers,     \* http.Header: canonical name -> sequence of values
    detections,  \* map[providerKey]CDNDetection
    serverInfo,  \* ServerInfo returned by FingerprintServer
    again,       \* what a second call on the same headers returned
    keepAliveTimeout, \* what ExtractKeepAliveTimeout returned
    \* per-IP domain analysis
    aRecords,    \* dnsResult.ARecords
    phase,       \* position of AnalyzeDomain
    idx,         \* loop index
    responses,   \* result.Responses
    fetchLog,    \* IPs fetched, in order
    probeLog,    \* IPs probed, in order
    analysis     \* StableHeaders and DifferentHeadersFound of the result

probeVars  == <<impl, pc, conn, wire, retries, totalRead, readErr, partial,
                result, goErr, readOut, log>>
decodeVars == <<buf, decoded>>
detectVars == <<headers, detections, serverInfo, again, keepAliveTimeout>>
domainVars == <<aRecords, phase, idx, responses, fetchLog, probeLog, analysis>>
vars       == <<probeVars, decodeVars, detectVars, domainVars>>

\* a nil pointer is the empty tuple, a pointer to x the one-element tuple
Nil == <<>>
Ptr(x) == <<x>>

-----------------------------------------------------------------------------
(* Bytes and the fixed 20-byte record                                      *)

Byte == 0..255

minTCPPacketLength == 20

\* binary.BigEndian.Uint16(b[off:off+2]), off counted from 0 as in Go
Uint16(b, off) == b[off + 1] * 256 + b[off + 2]

\* binary.BigEndian.Uint32(b[off:off+4])
Uint32(b, off) ==
    ((b[off + 1] * 256 + b[off + 2]) * 256 + b[off + 3]) * 256 + b[off + 4]

\* flags & mask != 0, for a one-bit mask
HasBit(flags, mask) == (flags \div mask) % 2 = 1

\* byte i (from 0) of the array backing the slice s = [bytes, cap]: the
\* received bytes, then the untouched zeros of make([]byte, n)
Backing(s, i) == IF i < Len(s.bytes) THEN s.bytes[i + 1] ELSE 0

\* s[lo:hi] of a Go slice: legal while hi <= cap(s)
SliceOK(s, lo, hi) == lo <= hi /\ hi <= s.cap

Slice(s, lo, hi) == [k \in 1..(hi - lo) |-> Backing(s, lo + k - 1)]


-----------------------------------------------------------------------------
(* parseTCPOptions: the option walker. It only prints; the value returned  *)
(* here records what it printed (opts), how the walk ended (status) and    *)
(* the index reached (at). A Go run-time panic is "panic", a loop that     *)
(* no longer advances is "hang".                                           *)

OptionEndOfList     == 0
OptionNOP           == 1
OptionMSS           == 2
OptionWindowScale   == 3
OptionSACKPermitted == 4
OptionSACK          == 5
OptionTimestamps    == 8

Opt(kind, length, data) == [Kind |-> kind, Length |-> length, Data |-> data]

Walked(status, opts, at) == [status |-> status, opts |-> opts, at |-> at]

RECURSIVE walkOptions(_, _, _)
walkOptions(options, i, acc) ==
    LET n == Len(options) IN
    IF i >= n THEN Walked("done", acc, i)
    ELSE
      LET opt == options[i + 1] IN
      CASE opt = OptionEndOfList \/ opt = OptionNOP ->
             walkOptions(options, i + 1, Append(acc, Opt(opt, 1, <<>>)))
        [] opt = OptionMSS ->
             IF i + 3 >= n THEN Walked("truncated", acc, i)
             ELSE walkOptions(options, i + 4,
                     Append(acc, Opt(opt, 4, <<Uint16(options, i + 2)>>)))
        [] opt = OptionWindowScale ->
             IF i + 2 >= n THEN Walked("truncated", acc, i)
             ELSE walkOptions(options, i + 3,
                     Append(acc, Opt(opt, 3, <<options[i + 3]>>)))
        [] opt = OptionSACKPermitted ->
             walkOptions(options, i + 2, Append(acc, Opt(opt, 2, <<>>)))
        [] opt = OptionSACK ->
             IF i + 1 >= n \/ i + options[i + 2] > n
             THEN Walked("truncated", acc, i)
             ELSE LET sackLen == options[i + 2] IN
                  \* options[i+2 : i+sackLen] panics when i+2 > i+sackLen
                  IF i + 2 > i + sackLen THEN Walked("panic", acc, i)
                  ELSE walkOptions(options, i + sackLen,
                          Append(acc, Opt(opt, sackLen,
                                 SubSeq(options, i + 3, i + sackLen))))
        [] opt = OptionTimestamps ->
             IF i + 9 >= n THEN Walked("truncated", acc, i)
             ELSE walkOptions(options, i + 10,
                     Append(acc, Opt(opt, 10, <<Uint32(options, i + 2),
                                                Uint32(options, i + 6)>>)))
        [] OTHER ->
             IF i + 1 >= n \/ i + options[i + 2] > n
             THEN Walked("truncated", acc, i)
             ELSE IF options[i + 2] = 0
                  \* i += 0: the loop repeats on the same byte for ever
                  THEN Walked("hang", acc, i)
                  ELSE walkOptions(options, i + options[i + 2],
                          Append(acc, Opt(opt, options[i + 2], <<>>)))

parseTCPOptions(options) == walkOptions(options, 0, <<>>)

-----------------------------------------------------------------------------
(* analyzeTCPResponse: the decoder of the fixed 20-byte record             *)

InvalidLength == "Invalid TCP packet length\n"

Decoded(kind, err, response, walk) ==
    [kind |-> kind, err |-> err, response |-> response, walk |-> walk]

\* the struct literal and the eight flag assignments
tcpFields(b) ==
    LET Flags == b[14] IN
    [ SourcePort      |-> Uint16(b, 0),
      DestinationPort |-> Uint16(b, 2),
      SequenceNumber  |-> Uint32(b, 4),
      AckNumber       |-> Uint32(b, 8),
      DataOffset      |-> (b[13] \div 16) * 4,
      Flags           |-> Flags,
      WindowSize      |-> Uint16(b, 14),
      Checksum        |-> Uint16(b, 16),
      UrgentPointer   |-> Uint16(b, 18),
      SYNFlag         |-> HasBit(Flags, 2),
      ACKFlag         |-> HasBit(Flags, 16),
      FINFlag         |-> HasBit(Flags, 1),
      RSTFlag         |-> HasBit(Flags, 4),
      PSHFlag         |-> HasBit(Flags, 8),
      URGFlag         |-> HasBit(Flags, 32),
      ECEFlag         |-> HasBit(Flags, 64),
      CWRFlag         |-> HasBit(Flags, 128),
      TCPOptions      |-> <<>> ]

\* lines 489-517: what follows the length check
decodeRecord(s) ==
    LET response == tcpFields(s.bytes) IN
    IF response.DataOffset > 20
    THEN IF ~SliceOK(s, 20, response.DataOffset)
         THEN Decoded("panic", "", Nil, Nil)
         ELSE LET options == Slice(s, 20, response.DataOffset)
                  w       == parseTCPOptions(options)
              IN  IF w.status \in {"panic", "hang"}
                  THEN Decoded(w.status, "", Nil, Ptr(w))
                  ELSE Decoded("ok", "",
                         Ptr([response EXCEPT !.TCPOptions = options]),
                         Ptr(w))
    ELSE Decoded("ok", "", Ptr(response), Nil)

\* a decoder whose length check is off by one (<= instead of <)
analyzeTCPResponse_LengthOffByOne(s) ==
    IF Len(s.bytes) <= minTCPPacketLength
    THEN Decoded("error", InvalidLength, Nil, Nil)
    ELSE decodeRecord(s)

analyzeTCPResponse(s) ==
    IF Len(s.bytes) < minTCPPacketLength
    THEN Decoded("error", InvalidLength, Nil, Nil)
    ELSE decodeRecord(s)

-----------------------------------------------------------------------------
(* Strings (package strings) and http.Header                               *)

UpperLetters == "ABCDEFGHIJKLMNOPQRSTUVWXYZ"
LowerLetters == "abcdefghijklmnopqrstuvwxyz"

Char(s, i) == SubSeq(s, i, i)

\* the lower-case letter of every upper-case letter, and the reverse
LowerOf ==
    [ c \in {Char(UpperLetters, i) : i \in 1..Len(UpperLetters)} |->
        Char(LowerLetters,
             CHOOSE i \in 1..Len(UpperLetters) : Char(UpperLetters, i) = c) ]

UpperOf ==
    [ c \in {Char(LowerLetters, i) : i \in 1..Len(LowerLetters)} |->
        Char(UpperLetters,
             CHOOSE i \in 1..Len(LowerLetters) : Char(LowerLetters, i) = c) ]

LowerChar(c) == IF c \in DOMAIN LowerOf THEN LowerOf[c] ELSE c

UpperChar(c) == IF c \in DOMAIN UpperOf THEN UpperOf[c] ELSE c

\* strings.ToLower
RECURSIVE ToLower(_)
ToLower(s) ==
    IF Len(s) = 0 THEN ""
    ELSE LowerChar(Char(s, 1)) \o ToLower(SubSeq(s, 2, Len(s)))

\* strings.Contains
Contains(s, substr) ==
    \E i \in 1..(Len(s) - Len(substr) + 1) :
        SubSeq(s, i, i + Len(substr) - 1) = substr

\* textproto.CanonicalMIMEHeaderKey: the first letter and every letter after
\* a hyphen in upper case, the others in lower case
RECURSIVE canonicalFrom(_, _)
canonicalFrom(s, upper) ==
    IF Len(s) = 0 THEN ""
    ELSE LET c == Char(s, 1) IN
         (IF upper THEN UpperChar(c) ELSE LowerChar(c))
             \o canonicalFrom(SubSeq(s, 2, Len(s)), c = "-")

CanonicalMIMEHeaderKey(s) == canonicalFrom(s, TRUE)

\* http.Header.Get: the first value under the canonical key, or ""
Get(h, key) ==
    LET k == CanonicalMIMEHeaderKey(key) IN
    IF k \in DOMAIN h /\ Len(h[k]) > 0 THEN h[k][1] ELSE ""

\* h[key]: the values under the key as written, nil when absent
Values(h, key) == IF key \in DOMAIN h THEN h[key] ELSE <<>>

-----------------------------------------------------------------------------
(* DetectCDNWithConfidence and the eight detectors                         *)

CDNDetection(provider, detected, confidence, evidence, primary) ==
    [ Provider |-> provider, Detected |-> detected, Confidence |-> confidence,
      Evidence |-> evidence, PrimaryEvidence |-> primary ]

NotDetected(provider) == CDNDetection(provider, FALSE, "Low", <<>>, "")

\* a rule that marks the provider detected without recording its evidence
Match_NoEvidence(d, confidence, evidence, primary) ==
    [d EXCEPT !.Detected = TRUE,
              !.Confidence = confidence,
              !.PrimaryEvidence = IF @ = "" THEN primary ELSE @]

\* a later rule that matches: it appends its evidence, raises Low to the
\* given tier (or sets the tier) and keeps an earlier primary evidence
Match(d, confidence, evidence, primary) ==
    [d EXCEPT !.Detected = TRUE,
              !.Confidence = confidence,
              !.Evidence = Append(@, evidence),
              !.PrimaryEvidence = IF @ = "" THEN primary ELSE @]

\* a lower-confidence rule that adds a tier to an earlier Medium match
Raised_Stacking(d) == IF d.Confidence = "Low" THEN "Medium" ELSE "High"

\* Confidence = "Medium" only if it is still "Low"
Raised(d) == IF d.Confidence = "Low" THEN "Medium" ELSE d.Confidence

detectCloudflareWithConfidence(h) ==
    LET cfRay == Get(h, "CF-Ray")
        cfCacheStatus == Get(h, "CF-Cache-Status")
        cfConnectingIP == Get(h, "CF-Connecting-IP")
        cfIPCountry == Get(h, "CF-IPCountry")
        server == Get(h, "Server")
        d0 == NotDetected("Cloudflare")
        d1 == IF cfConnectingIP # ""
              THEN [d0 EXCEPT !.Detected = TRUE, !.Confidence = "Medium",
                      !.Evidence = Append(@, "CF-Connecting-IP header present"),
                      !.PrimaryEvidence = "CF-Connecting-IP: " \o cfConnectingIP]
              ELSE d0
        d2 == IF cfIPCountry # ""
              THEN Match(d1, "Medium", "CF-IPCountry header present",
                         "CF-IPCountry: " \o cfIPCountry)
              ELSE d1
        d3 == IF Contains(ToLower(server), "cloudflare")
              THEN Match(d2, Raised(d2), "Server header contains 'cloudflare'",
                         "Server: " \o server)
              ELSE d2
    IN  IF cfRay # ""
        THEN CDNDetection("Cloudflare", TRUE, "High",
                          <<"CF-Ray header present">>, "CF-Ray: " \o cfRay)
        ELSE IF cfCacheStatus # ""
        THEN CDNDetection("Cloudflare", TRUE, "High",
                          <<"CF-Cache-Status header present">>,
                          "CF-Cache-Status: " \o cfCacheStatus)
        ELSE d3

\* the values the cookie loops range over
Cookies(h) == {Values(h, "Set-Cookie")[i] : i \in 1..Len(Values(h, "Set-Cookie"))}

detectCloudFrontWithConfidence(h) ==
    LET cfRequestId == Get(h, "X-Amz-Cf-Id")
        via == Get(h, "Via")
        xCache == Get(h, "X-Cache")
        IsALB(cookie) == Contains(cookie, "AWSALB") \/ Contains(cookie, "AWSALBCORS")
        d0 == NotDetected("CloudFront")
        d1 == IF Contains(ToLower(via), "cloudfront")
              THEN [d0 EXCEPT !.Detected = TRUE, !.Confidence = "Medium",
                      !.Evidence = Append(@, "Via header contains 'cloudfront'"),
                      !.PrimaryEvidence = "Via: " \o via]
              ELSE d0
        d2 == IF Contains(ToLower(xCache), "cloudfront")
              THEN Match(d1, "Medium", "X-Cache header contains 'cloudfront'",
                         "X-Cache: " \o xCache)
              ELSE d1
        d3 == IF \E cookie \in Cookies(h) : IsALB(cookie)
              THEN Match(d2, Raised(d2), "AWS Load Balancer cookie present",
                         "AWS ALB Cookie detected")
              ELSE d2
    IN  IF cfRequestId # ""
        THEN CDNDetection("CloudFront", TRUE, "High",
                          <<"X-Amz-Cf-Id header present">>,
                          "X-Amz-Cf-Id: " \o cfRequestId)
        ELSE d3

\* the keys of the akamaiHeaders map
akamaiHeaders ==
    { "X-Akamai-Transformed", "X-Akamai-Session-Info", "Akamai-Origin-Hop",
      "X-Akamai-Staging", "X-Akamai-Edge-IP", "X-Akamai-Request-ID",
      "X-Akamai-Config-Log-Detail" }

\* the keys of akamaiHeaders that the response carries
akamaiPresent(h) == {header \in akamaiHeaders : Get(h, header) # ""}

\* Go ranges over the akamaiHeaders map in an unspecified order: first is
\* the present key the iteration happens to reach first ("" when none is)
detectAkamaiWithConfidence(h, first) ==
    LET trueClientIP == Get(h, "True-Client-IP")
        server == Get(h, "Server")
        d0 == NotDetected("Akamai")
        d1 == IF trueClientIP # ""
              THEN [d0 EXCEPT !.Detected = TRUE, !.Confidence = "Medium",
                      !.Evidence = Append(@, "True-Client-IP header present"),
                      !.PrimaryEvidence = "True-Client-IP: " \o trueClientIP]
              ELSE d0
        d2 == IF Contains(ToLower(server), "akamai")
              THEN Match(d1, Raised(d1), "Server header contains 'akamai'",
                         "Server: " \o server)
              ELSE d1
    IN  IF first \in akamaiPresent(h)
        THEN CDNDetection("Akamai", TRUE, "High",
                          <<first \o " header present">>,
                          first \o ": " \o Get(h, first))
        ELSE d2

\* the slice fastlyHeaders, in its order
fastlyHeaders ==
    << "Fastly-Debug-Path", "Fastly-Debug-TTL", "Fastly-Debug-Digest",
       "X-Fastly-Request-ID", "X-Fastly-Trace", "Fastly-IO", "Fastly-Restarts" >>

\* the index of the first true condition of a tuple, 0 if none is true
FirstTrue(conds) ==
    IF \E i \in 1..Len(conds) : conds[i]
    THEN CHOOSE i \in 1..Len(conds) :
            conds[i] /\ \A j \in 1..(i - 1) : ~conds[j]
    ELSE 0

\* the number of true conditions among a tuple of conditions
CountTrue(conds) == Cardinality({i \in 1..Len(conds) : conds[i]})

\* the correlation satisfied by a single header of the signal set
hasFastlyIndicators_AnyOne(h) ==
    \E name \in { "X-Served-By", "X-Cache", "X-Timer", "Age", "Via",
                  "Cache-Control", "Vary" } : Get(h, name) # ""

\* the correlation that does not count X-Cache itself
hasFastlyIndicators_WithoutXCache(h) ==
    LET indicators ==
          CountTrue(<< Get(h, "X-Served-By") # "", Get(h, "X-Timer") # "",
                       Get(h, "Age") # "", Get(h, "Via") # "",
                       Get(h, "Cache-Control") # "", Get(h, "Vary") # "" >>)
    IN  indicators >= 2

hasFastlyIndicators(h) ==
    LET indicators ==
          CountTrue(<< Get(h, "X-Served-By") # "", Get(h, "X-Cache") # "",
                       Get(h, "X-Timer") # "", Get(h, "Age") # "",
                       Get(h, "Via") # "", Get(h, "Cache-Control") # "",
                       Get(h, "Vary") # "" >>)
    IN  indicators >= 2

detectFastlyWithConfidence(h) ==
    LET Present(header) == Get(h, header) # ""
        hit == FirstTrue([i \in 1..Len(fastlyHeaders) |-> Present(fastlyHeaders[i])])
        xServedBy == Get(h, "X-Served-By")
        xTimer == Get(h, "X-Timer")
        via == Get(h, "Via")
        viaLower == ToLower(via)
        xCache == Get(h, "X-Cache")
        xCacheLower == ToLower(xCache)
        d0 == NotDetected("Fastly")
        d1 == IF xServedBy # ""
                 /\ (Contains(ToLower(xServedBy), "cache-")
                        \/ Contains(ToLower(xServedBy), "fastly"))
              THEN [d0 EXCEPT !.Detected = TRUE, !.Confidence = "Medium",
                      !.Evidence = Append(@,
                          "X-Served-By header with cache server pattern"),
                      !.PrimaryEvidence = "X-Served-By: " \o xServedBy]
              ELSE d0
        d2 == IF xTimer # "" /\ Contains(xTimer, "S")
                 /\ (Contains(xTimer, ".") \/ Contains(xTimer, ","))
              THEN Match(d1, "Medium", "X-Timer header with Fastly format",
                         "X-Timer: " \o xTimer)
              ELSE d1
        d3 == IF via # "" /\ Contains(viaLower, "fastly")
              THEN Match(d2, "Medium", "Via header contains 'fastly'",
                         "Via: " \o via)
              ELSE IF via # "" /\ Contains(viaLower, "varnish")
              THEN Match(d2, "Medium",
                         "Via header contains 'varnish' (Fastly backend)",
                         "Via: " \o via)
              ELSE d2
        d4 == IF xCache # ""
                 /\ (Contains(xCacheLower, "hit") \/ Contains(xCacheLower, "miss"))
                 /\ hasFastlyIndicators(h)
              THEN Match(d3, Raised(d3),
                     "X-Cache header with hit/miss pattern and Fastly indicators",
                     "X-Cache: " \o xCache)
              ELSE d3
    IN  IF hit # 0
        THEN CDNDetection("Fastly", TRUE, "High",
                          <<fastlyHeaders[hit] \o " header present">>,
                          fastlyHeaders[hit] \o ": " \o Get(h, fastlyHeaders[hit]))
        ELSE d4

keyCDNHeaders == <<"X-Edge-Location", "X-Cache", "Server">>

detectKeyCDNWithConfidence(h) ==
    LET Hit(header) == Get(h, header) # ""
                         /\ Contains(ToLower(Get(h, header)), "keycdn")
        hit == FirstTrue([i \in 1..Len(keyCDNHeaders) |-> Hit(keyCDNHeaders[i])])
    IN  IF hit # 0
        THEN CDNDetection("KeyCDN", TRUE, "High",
                          <<keyCDNHeaders[hit] \o " header contains 'keycdn'">>,
                          keyCDNHeaders[hit] \o ": " \o Get(h, keyCDNHeaders[hit]))
        ELSE NotDetected("KeyCDN")

detectMaxCDNWithConfidence(h) ==
    LET xCache == Get(h, "X-Cache")
        server == Get(h, "Server")
        d0 == NotDetected("MaxCDN")
        d1 == IF Contains(ToLower(xCache), "maxcdn")
              THEN [d0 EXCEPT !.Detected = TRUE, !.Confidence = "High",
                      !.Evidence = Append(@, "X-Cache header contains 'maxcdn'"),
                      !.PrimaryEvidence = "X-Cache: " \o xCache]
              ELSE d0
    IN  IF Contains(ToLower(server), "maxcdn")
        THEN Match(d1, "High", "Server header contains 'maxcdn'",
                   "Server: " \o server)
        ELSE d1

detectIncapsulaWithConfidence(h) ==
    LET xIinfo == Get(h, "X-Iinfo")
        xCDN == Get(h, "X-CDN")
        IsIncap(cookie) == Contains(ToLower(cookie), "visid_incap")
        d0 == NotDetected("Incapsula")
        d1 == IF xIinfo # ""
              THEN [d0 EXCEPT !.Detected = TRUE, !.Confidence = "High",
                      !.Evidence = Append(@, "X-Iinfo header present"),
                      !.PrimaryEvidence = "X-Iinfo: " \o xIinfo]
              ELSE d0
        d2 == IF Contains(ToLower(xCDN), "incapsula")
              THEN Match(d1, "High", "X-CDN header contains 'incapsula'",
                         "X-CDN: " \o xCDN)
              ELSE d1
    IN  IF \E cookie \in Cookies(h) : IsIncap(cookie)
        THEN Match(d2, "High", "Incapsula visitor ID cookie present",
                   "Incapsula cookie detected")
        ELSE d2

detectSucuriWithConfidence(h) ==
    LET sucuriID == Get(h, "X-Sucuri-ID")
        sucuriCache == Get(h, "X-Sucuri-Cache")
        server == Get(h, "Server")
        d0 == NotDetected("Sucuri")
        d1 == IF sucuriID # ""
              THEN [d0 EXCEPT !.Detected = TRUE, !.Confidence = "High",
                      !.Evidence = Append(@, "X-Sucuri-ID header present"),
                      !.PrimaryEvidence = "X-Sucuri-ID: " \o sucuriID]
              ELSE d0
        d2 == IF sucuriCache # ""
              THEN Match(d1, "High", "X-Sucuri-Cache header present",
                         "X-Sucuri-Cache: " \o sucuriCache)
              ELSE d1
    IN  IF Contains(ToLower(server), "sucuri")
        THEN Match(d2, "High", "Server header contains 'sucuri'",
                   "Server: " \o server)
        ELSE d2

ProviderKeys ==
    { "cloudflare", "cloudfront", "akamai", "fastly", "keycdn", "maxcdn",
      "incapsula", "sucuri" }

\* first: the key the range over akamaiHeaders reaches first
DetectCDNWithConfidence(h, first) ==
    [ key \in ProviderKeys |->
        CASE key = "cloudflare" -> detectCloudflareWithConfidence(h)
          [] key = "cloudfront" -> detectCloudFrontWithConfidence(h)
          [] key = "akamai"     -> detectAkamaiWithConfidence(h, first)
          [] key = "fastly"     -> detectFastlyWithConfidence(h)
          [] key = "keycdn"     -> detectKeyCDNWithConfidence(h)
          [] key = "maxcdn"     -> detectMaxCDNWithConfidence(h)
          [] key = "incapsula"  -> detectIncapsulaWithConfidence(h)
          [] key = "sucuri"     -> detectSucuriWithConfidence(h) ]

\* the choices the map iteration leaves open for a given response
AkamaiFirst(h) == IF akamaiPresent(h) = {} THEN {""} ELSE akamaiPresent(h)

-----------------------------------------------------------------------------
(* FingerprintServer and its helpers                                       *)

\* strings.Index: the 0-based position of the first occurrence, -1 if none
Index(str, substr) ==
    LET at == {i \in 1..(Len(str) - Len(substr) + 1) :
                  SubSeq(str, i, i + Len(substr) - 1) = substr}
    IN  IF at = {} THEN -1 ELSE (CHOOSE i \in at : \A j \in at : i <= j) - 1

\* char >= '0' && char <= '9' || char == '.'
IsVersionChar(c) == c \in {"0", "1", "2", "3", "4", "5", "6", "7", "8", "9", "."}

\* the loop of extractVersion from 1-based position i on: characters that
\* are no digit and no dot are skipped until the version starts, and the
\* first such character after it ends the loop
RECURSIVE scanVersion(_, _, _, _)
scanVersion(server, i, versionStr, inVersion) ==
    IF i > Len(server) THEN versionStr
    ELSE IF IsVersionChar(Char(server, i))
    THEN scanVersion(server, i + 1, versionStr \o Char(server, i), TRUE)
    ELSE IF inVersion THEN versionStr
    ELSE scanVersion(server, i + 1, versionStr, FALSE)

\* the header and typeIndex are computed once, then the loop runs
extractVersion(server, serverType) ==
    LET from(header, typeIndex) ==
          LET versionStart == typeIndex + Len(serverType)
          IN  IF typeIndex = -1 THEN ""
              ELSE IF versionStart >= Len(header) THEN ""
              ELSE scanVersion(header, versionStart + 1, "", FALSE)
    IN  CHOOSE version \in
            { from(header, typeIndex) :
                header \in {server},
                typeIndex \in {Index(ToLower(server), ToLower(serverType))} } : TRUE

ServerInfo(serverType, version, platform, poweredBy, loadBalancer, conf, print) ==
    [ ServerType |-> serverType, Version |-> version, Platform |-> platform,
      PoweredBy |-> poweredBy, LoadBalancer |-> loadBalancer,
      Confidence |-> conf, Fingerprint |-> print ]

\* one block of analyzeServerHeader: the type, the platform and, when one
\* is found, the version
Typed(info, server, serverType, platform, versionOf) ==
    LET version == IF versionOf = "" THEN "" ELSE extractVersion(server, versionOf)
    IN  [info EXCEPT !.ServerType = serverType, !.Platform = platform,
                     !.Version = IF version # "" THEN version ELSE @]

analyzeServerHeader(server, info) ==
    LET serverLower == ToLower(server)
        i1 == IF Contains(serverLower, "nginx")
              THEN Typed(info, server, "nginx", "Linux/Unix", "nginx") ELSE info
        i2 == IF Contains(serverLower, "apache")
              THEN Typed(i1, server, "Apache",
                         IF Contains(serverLower, "win") THEN "Windows"
                         ELSE "Linux/Unix", "apache")
              ELSE i1
        i3 == IF Contains(serverLower, "iis") \/ Contains(serverLower, "microsoft")
              THEN Typed(i2, server, "IIS", "Windows", "iis") ELSE i2
        i4 == IF Contains(serverLower, "litespeed")
              THEN Typed(i3, server, "LiteSpeed", "Linux/Unix", "litespeed") ELSE i3
        i5 == IF Contains(serverLower, "openresty")
              THEN Typed(i4, server, "OpenResty", "Linux/Unix", "") ELSE i4
    IN  IF Contains(serverLower, "caddy")
        THEN Typed(i5, server, "Caddy", "Cross-platform", "") ELSE i5

analyzePoweredByHeader(poweredBy, info) ==
    LET poweredByLower == ToLower(poweredBy)
        i1 == IF Contains(poweredByLower, "asp.net")
              THEN [info EXCEPT !.Platform = "Windows",
                                !.ServerType = IF @ = "Unknown" THEN "IIS" ELSE @]
              ELSE info
    IN  IF Contains(poweredByLower, "php") /\ i1.Platform = "Unknown"
        THEN [i1 EXCEPT !.Platform = "Linux/Unix"] ELSE i1

detectLoadBalancer(h, info) ==
    LET i1 == IF Contains(ToLower(Get(h, "Server")), "haproxy")
              THEN [info EXCEPT !.LoadBalancer = "HAProxy"] ELSE info
        i2 == IF Get(h, "X-WA-Info") # ""
              THEN [i1 EXCEPT !.LoadBalancer = "F5 BIG-IP"] ELSE i1
        i3 == IF Get(h, "X-Amzn-Trace-Id") # ""
              THEN [i2 EXCEPT !.LoadBalancer = "AWS Application Load Balancer"]
              ELSE i2
    IN  IF Get(h, "CF-Ray") # "" THEN [i3 EXCEPT !.LoadBalancer = "Cloudflare"]
        ELSE i3

importantHeaders ==
    << "Server", "X-Powered-By", "X-AspNet-Version", "X-Frame-Options",
       "X-Content-Type-Options", "Strict-Transport-Security",
       "Content-Security-Policy" >>

generateFingerprint(h) ==
    LET F[i \in 0..Len(importantHeaders)] ==
          IF i = 0 THEN ""
          ELSE IF Get(h, importantHeaders[i]) # ""
          THEN F[i - 1] \o importantHeaders[i] \o ":"
                   \o Get(h, importantHeaders[i]) \o ";"
          ELSE F[i - 1]
    IN  F[Len(importantHeaders)]

\* a score in which a known version counts 15
calculateConfidence_VersionLow(info) ==
    LET score ==
          (IF info.ServerType # "Unknown" THEN 30 ELSE 0)
          + (IF info.Version # "Unknown" /\ info.Version # "" THEN 15 ELSE 0)
          + (IF info.Platform # "Unknown" THEN 20 ELSE 0)
          + (IF info.PoweredBy # "Unknown" /\ info.PoweredBy # "" THEN 15 ELSE 0)
          + (IF info.LoadBalancer # "Unknown" THEN 10 ELSE 0)
    IN  IF score >= 70 THEN "High" ELSE IF score >= 40 THEN "Medium" ELSE "Low"

\* the headers argument of calculateConfidence is not used
calculateConfidence(info) ==
    LET score ==
          (IF info.ServerType # "Unknown" THEN 30 ELSE 0)
          + (IF info.Version # "Unknown" /\ info.Version # "" THEN 25 ELSE 0)
          + (IF info.Platform # "Unknown" THEN 20 ELSE 0)
          + (IF info.PoweredBy # "Unknown" /\ info.PoweredBy # "" THEN 15 ELSE 0)
          + (IF info.LoadBalancer # "Unknown" THEN 10 ELSE 0)
    IN  IF score >= 70 THEN "High" ELSE IF score >= 40 THEN "Medium" ELSE "Low"

FingerprintServer(h) ==
    LET i0 == ServerInfo("Unknown", "Unknown", "Unknown", "Unknown", "Unknown",
                         "Low", "")
        serverHeader == Get(h, "Server")
        poweredBy == Get(h, "X-Powered-By")
        i1 == IF serverHeader # "" THEN analyzeServerHeader(serverHeader, i0) ELSE i0
        i2 == IF poweredBy # ""
              THEN analyzePoweredByHeader(poweredBy, [i1 EXCEPT !.PoweredBy = poweredBy])
              ELSE i1
        i3 == detectLoadBalancer(h, i2)
        i4 == [i3 EXCEPT !.Fingerprint = generateFingerprint(h)]
    IN  [i4 EXCEPT !.Confidence = calculateConfidence(i4)]

-----------------------------------------------------------------------------
(* ExtractKeepAliveTimeout                                                 *)

\* strings.Split on a separator of one character
RECURSIVE Split(_, _)
Split(str, sep) ==
    LET at == Index(str, sep) IN
    IF at = -1 THEN <<str>>
    ELSE <<SubSeq(str, 1, at)>> \o Split(SubSeq(str, at + 2, Len(str)), sep)

\* strings.TrimSpace, on strings whose only white space is the blank
RECURSIVE TrimSpace(_)
TrimSpace(str) ==
    IF Len(str) = 0 THEN ""
    ELSE IF Char(str, 1) = " " THEN TrimSpace(SubSeq(str, 2, Len(str)))
    ELSE IF Char(str, Len(str)) = " " THEN TrimSpace(SubSeq(str, 1, Len(str) - 1))
    ELSE str

\* getHeaderValue of internal/http: the key is looked up as written
getHeaderValue(h, key) ==
    IF Len(Values(h, key)) > 0 THEN Values(h, key)[1] ELSE "Not Defined"

ExtractKeepAliveTimeout(keepAliveHeader) ==
    LET parts == Split(keepAliveHeader, "=") IN
    IF Contains(keepAliveHeader, "timeout=") /\ Len(parts) > 1
    THEN TrimSpace(parts[2])
    ELSE "Not Defined"

\* extractTimeoutValue of server.go: the same without the trimming
extractTimeoutValue(keepAliveHeader) ==
    LET parts == Split(keepAliveHeader, "=") IN
    IF Contains(keepAliveHeader, "timeout=") /\ Len(parts) > 1
    THEN parts[2]
    ELSE "Not Defined"

-----------------------------------------------------------------------------
(* Values of the variables of a component that is not running              *)

NoSlice == [bytes |-> <<>>, cap |-> 0]
Pending == Decoded("pending", "", Nil, Nil)

ProbeIdle ==
    /\ impl = "" /\ pc = "" /\ conn = "none" /\ wire = <<>>
    /\ retries = 0 /\ totalRead = 0 /\ readErr = "" /\ partial = Nil
    /\ result = Nil /\ goErr = "" /\ readOut = Nil /\ log = <<>>

DecodeIdle == buf = NoSlice /\ decoded = Pending

DetectIdle ==
    /\ headers = <<>> /\ detections = <<>> /\ serverInfo = <<>> /\ again = <<>>
    /\ keepAliveTimeout = <<>>

DomainIdle ==
    /\ aRecords = <<>> /\ phase = "" /\ idx = 0 /\ responses = <<>>
    /\ fetchLog = <<>> /\ probeLog = <<>> /\ analysis = Nil

-----------------------------------------------------------------------------
(* The decoder under test: every input is a prefix of a 20-byte record     *)
(* followed by option bytes, sliced from the probe's read buffer.           *)

\* capacity of the read buffer the probe slices its input from
BufferSize == 4096

\* length of the shortest prefix tried; prefixes of MaxCut or fewer bytes
\* short of the full record are tried too
MaxCut == 2

PortSamples   == {<<0, 80>>, <<255, 255>>}
SeqSamples    == {<<0, 0, 0, 1>>, <<127, 255, 255, 255>>}
OffsetSamples == {80, 96, 112, 240, 32}
FlagSamples   == {24, 2, 255, 0, 165}
WindowSamples == {<<0, 255>>, <<255, 255>>}

OptionSamples ==
    { <<>>,
      <<2, 4, 5, 180>>,
      <<1, 1, 3, 3, 7, 0, 0, 0>>,
      <<4, 2, 8, 10, 0, 0, 0, 1, 0, 0, 0, 2>>,
      <<5, 4, 9, 9>>,
      <<5, 0, 0, 0>>,
      <<9, 0, 0, 0>>,
      <<9, 3, 7, 2, 4>>,
      <<2, 4, 5>>,
      <<5, 200, 1, 1>>,
      <<1, 1, 1, 4>>,
      <<1, 2, 4, 5>>,
      <<3, 3, 7, 3>>,
      <<5, 1, 1, 1>>,
      <<5, 2, 9, 2>> }

Record20(src, sq, off, fl, win) ==
    src \o <<1, 187>> \o sq \o <<0, 0, 0, 2>> \o <<off, fl>> \o win
        \o <<255, 255, 0, 0>>

FullInputs ==
    { Record20(src, sq, off, fl, win) \o opts :
        src \in PortSamples, sq \in SeqSamples, off \in OffsetSamples,
        fl \in FlagSamples, win \in WindowSamples, opts \in OptionSamples }

CutLengths(full) ==
    {Len(full)} \cup {n \in (minTCPPacketLength - MaxCut)..minTCPPacketLength :
                        n <= Len(full)}

\* buf[:n] of buf := make([]byte, BufferSize), as the probe passes it
Received(b) == [bytes |-> b, cap |-> BufferSize]

DecodeInputs ==
    UNION { { Received(SubSeq(full, 1, n)) : n \in CutLengths(full) } :
            full \in FullInputs }

DecodeInit ==
    /\ buf \in DecodeInputs
    /\ decoded = Pending
    /\ ProbeIdle /\ DetectIdle /\ DomainIdle

\* one call of analyzeTCPResponse(buf)
DecodeCall ==
    /\ buf # NoSlice
    /\ decoded = Pending
    /\ decoded' = analyzeTCPResponse(buf)
    /\ UNCHANGED <<buf, probeVars, detectVars, domainVars>>

DecodeNext == DecodeCall

SpecDecode == DecodeInit /\ [][DecodeNext]_vars

-----------------------------------------------------------------------------
(* The detectors under test: one call of DetectCDNWithConfidence on the    *)
(* headers of a response.                                                   *)

\* the most header lines a response under test carries
MaxHeaders == 2

\* header lines as they come off the wire: a name and its values in order
HeaderSamples ==
    { <<"CF-Ray", <<"abcd">> >>, <<"cf-cache-status", <<"HIT">> >>,
      <<"CF-Connecting-IP", <<"1.2.3.4">> >>, <<"CF-IPCountry", <<"US">> >>,
      <<"Server", <<"cloudflare">> >>, <<"Server", <<"nginx">> >>,
      <<"Server", <<"AkamaiGHost">> >>, <<"Server", <<"Sucuri/Cloudproxy">> >>,
      <<"Server", <<"keycdn-engine">> >>, <<"Server", <<"MaxCDN">> >>,
      <<"X-Amz-Cf-Id", <<"xyz">> >>,
      <<"Via", <<"1.1 x.cloudfront.net (CloudFront)">> >>,
      <<"Via", <<"1.1 varnish">> >>, <<"Via", <<"1.1 fastly">> >>,
      <<"Via", <<"1.1 proxy">> >>,
      <<"X-Cache", <<"HIT">> >>, <<"X-Cache", <<"Miss from cloudfront">> >>,
      <<"X-Cache", <<"EXPIRED">> >>, <<"X-Cache", <<"maxcdn">> >>,
      <<"Set-Cookie", <<"sid=1", "AWSALB=abc">> >>,
      <<"Set-Cookie", <<"visid_incap_1=x">> >>, <<"Set-Cookie", <<"sid=1">> >>,
      <<"X-Akamai-Transformed", <<"9 1 0">> >>,
      <<"X-Akamai-Request-ID", <<"r1">> >>,
      <<"True-Client-IP", <<"1.2.3.4">> >>,
      <<"Fastly-Debug-Path", <<"p">> >>, <<"X-Fastly-Request-ID", <<"q">> >>,
      <<"X-Served-By", <<"cache-1">> >>, <<"X-Served-By", <<"web01">> >>,
      <<"X-Timer", <<"S1.5,VS0">> >>, <<"X-Timer", <<"T100">> >>,
      <<"Age", <<"10">> >>, <<"Cache-Control", <<"max-age=60">> >>,
      <<"Vary", <<"Accept-Encoding">> >>,
      <<"X-Edge-Location", <<"keycdn-lon">> >>,
      <<"x-iinfo", <<"1-2-3">> >>, <<"X-CDN", <<"Incapsula">> >>,
      <<"X-Sucuri-ID", <<"15001">> >>, <<"X-Sucuri-Cache", <<"HIT">> >>,
      <<"Content-Type", <<"text/html">> >> }

\* the canonical names of a set of header lines
NamesOf(lines) == {CanonicalMIMEHeaderKey(line[1]) : line \in lines}

\* the sets of at most k header lines with pairwise different names
RECURSIVE LinesUpTo(_)
LinesUpTo(k) ==
    IF k = 0 THEN {{}}
    ELSE LET fewer == LinesUpTo(k - 1) IN
         fewer \cup
         UNION { { lines \cup {line} :
                   line \in {l \in HeaderSamples :
                               CanonicalMIMEHeaderKey(l[1]) \notin NamesOf(lines)} } :
                 lines \in fewer }

\* the http.Header net/http builds from the lines: canonical keys
HeaderOf(lines) ==
    [ key \in NamesOf(lines) |->
        (CHOOSE line \in lines : CanonicalMIMEHeaderKey(line[1]) = key)[2] ]

\* responses of more lines: a Fastly edge answering from its cache, with
\* and without the generic cache headers next to it
LongerInputs ==
    { HeaderOf({ <<"X-Served-By", <<"cache-1">> >>, <<"X-Cache", <<"HIT">> >>,
                 <<"Age", <<"10">> >> }),
      HeaderOf({ <<"X-Cache", <<"HIT">> >>, <<"Age", <<"10">> >>,
                 <<"Cache-Control", <<"max-age=60">> >>,
                 <<"Vary", <<"Accept-Encoding">> >> }),
      HeaderOf({ <<"X-Cache", <<"MISS">> >>, <<"Content-Type", <<"text/html">> >>,
                 <<"Server", <<"nginx">> >> }) }

HeaderInputs == {HeaderOf(lines) : lines \in LinesUpTo(MaxHeaders)} \cup LongerInputs

DetectInit ==
    /\ headers \in HeaderInputs
    /\ detections = Nil /\ serverInfo = Nil /\ again = Nil
    /\ keepAliveTimeout = Nil
    /\ ProbeIdle /\ DecodeIdle /\ DomainIdle

\* one call of DetectCDNWithConfidence(headers)
DetectCall ==
    /\ detections = Nil
    /\ \E first \in AkamaiFirst(headers) :
         detections' = Ptr(DetectCDNWithConfidence(headers, first))
    /\ UNCHANGED <<headers, serverInfo, again, keepAliveTimeout, probeVars,
                   decodeVars, domainVars>>

\* a second call of DetectCDNWithConfidence on the same headers
DetectAgain ==
    /\ detections # Nil /\ again = Nil
    /\ \E first \in AkamaiFirst(headers) :
         again' = Ptr(DetectCDNWithConfidence(headers, first))
    /\ UNCHANGED <<headers, detections, serverInfo, keepAliveTimeout, probeVars,
                   decodeVars, domainVars>>

DetectNext == DetectCall \/ DetectAgain

SpecDetect == DetectInit /\ [][DetectNext]_vars

-----------------------------------------------------------------------------
(* The fingerprinter under test: FingerprintServer on the headers of a     *)
(* response, called twice.                                                  *)

FingerSamples ==
    { <<"Server", <<"nginx/1.18.0">> >>, <<"Server", <<"nginx">> >>,
      <<"Server", <<"Apache/2.4.41 (Win64)">> >>, <<"Server", <<"Apache">> >>,
      <<"Server", <<"Microsoft-IIS/10.0">> >>,
      <<"Server", <<"Microsoft-HTTPAPI/2.0">> >>,
      <<"Server", <<"LiteSpeed">> >>, <<"Server", <<"openresty/1.19">> >>,
      <<"Server", <<"Caddy">> >>, <<"Server", <<"haproxy">> >>,
      <<"Server", <<"cloudflare">> >>, <<"Server", <<"nginx (Ubuntu) 7">> >>,
      <<"Server", <<"nginx/1.18.0 Caddy">> >>, <<"Server", <<"Apache/2.4 LiteSpeed">> >>,
      <<"X-Powered-By", <<"PHP/7.4">> >>, <<"X-Powered-By", <<"ASP.NET">> >>,
      <<"X-Powered-By", <<"Express">> >>,
      <<"X-WA-Info", <<"[V2.S1]">> >>, <<"X-Amzn-Trace-Id", <<"Root=1">> >>,
      <<"cf-ray", <<"abcd">> >>, <<"X-Frame-Options", <<"DENY">> >>,
      <<"X-AspNet-Version", <<"4.0">> >>, <<"Content-Type", <<"text/html">> >> }

RECURSIVE FingerLinesUpTo(_)
FingerLinesUpTo(k) ==
    IF k = 0 THEN {{}}
    ELSE LET fewer == FingerLinesUpTo(k - 1) IN
         fewer \cup
         UNION { { lines \cup {line} :
                   line \in {l \in FingerSamples :
                               CanonicalMIMEHeaderKey(l[1]) \notin NamesOf(lines)} } :
                 lines \in fewer }

FingerInit ==
    /\ headers \in {HeaderOf(lines) : lines \in FingerLinesUpTo(MaxHeaders)}
    /\ detections = Nil /\ serverInfo = Nil /\ again = Nil
    /\ keepAliveTimeout = Nil
    /\ ProbeIdle /\ DecodeIdle /\ DomainIdle

\* one call of FingerprintServer(headers)
FingerprintCall ==
    /\ serverInfo = Nil
    /\ serverInfo' = Ptr(FingerprintServer(headers))
    /\ UNCHANGED <<headers, detections, again, keepAliveTimeout, probeVars,
                   decodeVars, domainVars>>

\* a second call on the same headers
FingerprintAgain ==
    /\ serverInfo # Nil /\ again = Nil
    /\ again' = Ptr(FingerprintServer(headers))
    /\ UNCHANGED <<headers, detections, serverInfo, keepAliveTimeout, probeVars,
                   decodeVars, domainVars>>

FingerNext == FingerprintCall \/ FingerprintAgain

SpecFingerprint == FingerInit /\ [][FingerNext]_vars

-----------------------------------------------------------------------------
(* The keep-alive extraction under test: ExtractKeepAliveTimeout on the    *)
(* Keep-Alive header of a response.                                        *)

TimeoutSamples == {"5", "60", "120"}
MaxSamplesOfMax == {"100", "1000"}

\* Keep-Alive values with a timeout parameter: alone, before max, after max
KeepAliveWithTimeout ==
    {"timeout=" \o t : t \in TimeoutSamples}
    \cup {"timeout=" \o t \o " " : t \in TimeoutSamples}
    \cup {"timeout=" \o t \o ", max=" \o m :
            t \in TimeoutSamples, m \in MaxSamplesOfMax}
    \cup {"max=" \o m \o ", timeout=" \o t :
            t \in TimeoutSamples, m \in MaxSamplesOfMax}

\* Keep-Alive values without one
KeepAliveWithoutTimeout == {"", "max=100", "close", "max=1000"}

\* the other headers of the response
KeepAliveCompany ==
    { <<>>, [Connection |-> <<"keep-alive">>], [Server |-> <<"nginx">>],
      [Connection |-> <<"keep-alive">>, Server |-> <<"nginx">>] }

KeepAliveInit ==
    /\ \E others \in KeepAliveCompany :
         \/ headers = others
         \/ \E v \in KeepAliveWithTimeout \cup KeepAliveWithoutTimeout :
              headers = ("Keep-Alive" :> <<v>>) @@ others
    /\ detections = Nil /\ serverInfo = Nil /\ again = Nil
    /\ keepAliveTimeout = Nil
    /\ ProbeIdle /\ DecodeIdle /\ DomainIdle

\* headerAnalyzer.ExtractKeepAliveTimeout(getHeaderValue(respHeaders, "Keep-Alive"))
ExtractKeepAliveTimeout_Call ==
    /\ keepAliveTimeout = Nil
    /\ keepAliveTimeout' =
          Ptr(ExtractKeepAliveTimeout(getHeaderValue(headers, "Keep-Alive")))
    /\ UNCHANGED <<headers, detections, serverInfo, again, probeVars, decodeVars,
                   domainVars>>

KeepAliveNext == ExtractKeepAliveTimeout_Call

SpecKeepAlive == KeepAliveInit /\ [][KeepAliveNext]_vars

-----------------------------------------------------------------------------
(* Domain analysis: AnalysisService.AnalyzeDomain calls the HTTP client's  *)
(* AnalyzeDomain, which fetches every A record in turn and compares the    *)
(* headers, and then probes every response that carries no error.  The     *)
(* outcome of every fetch and of every probe is a choice of the            *)
(* environment.                                                             *)

\* the most A records of a domain under test
MaxIPs == 2

IPs == {"10.0.0.1", "10.0.0.2", "10.0.0.3"}

\* the orderings of at most k different addresses
RECURSIVE RecordsUpTo(_)
RecordsUpTo(k) ==
    IF k = 0 THEN {<<>>}
    ELSE LET fewer == RecordsUpTo(k - 1) IN
         fewer \cup
         UNION { { Append(recs, ip) :
                   ip \in {a \in IPs : \A i \in 1..Len(recs) : recs[i] # a} } :
                 recs \in fewer }

\* the headers a server under test answers with
ResponseHeaderSamples ==
    { [Server |-> <<"nginx">>, Date |-> <<"d1">>],
      [Server |-> <<"nginx">>, Date |-> <<"d2">>],
      ("Server" :> <<"cloudflare">> @@ "Cf-Ray" :> <<"abcd">>
          @@ "Set-Cookie" :> <<"a=1", "b=2">>),
      ("Server" :> <<"nginx">> @@ "Set-Cookie" :> <<"b=2", "a=1">>) }

\* strings.Join
RECURSIVE Join(_, _)
Join(elems, sep) ==
    IF Len(elems) = 0 THEN ""
    ELSE IF Len(elems) = 1 THEN elems[1]
    ELSE elems[1] \o sep \o Join(Tail(elems), sep)

\* a comparison that ignores the order of the values
stringSlicesEqual_Unordered(a, b) ==
    {a[i] : i \in 1..Len(a)} = {b[i] : i \in 1..Len(b)}

stringSlicesEqual(a, b) ==
    Len(a) = Len(b) /\ \A i \in 1..Len(a) : a[i] = b[i]

\* a comparison over every header name of every response
findStableHeaders_AllNames(resps) ==
    IF Len(resps) = 0
    THEN [commonHeaders |-> <<>>, differenceFound |-> FALSE]
    ELSE LET names == UNION {DOMAIN resps[i].ResponseHeaders : i \in 1..Len(resps)}
             allSame(headerName) ==
                \A i \in 1..Len(resps) :
                    /\ headerName \in DOMAIN resps[i].ResponseHeaders
                    /\ headerName \in DOMAIN resps[1].ResponseHeaders
                    /\ stringSlicesEqual(resps[1].ResponseHeaders[headerName],
                                         resps[i].ResponseHeaders[headerName])
         IN  [ commonHeaders |->
                 [ headerName \in {n \in names : allSame(n)} |->
                     Join(resps[1].ResponseHeaders[headerName], ", ") ],
               differenceFound |-> \E n \in names : ~allSame(n) ]

\* a comparison of the baseline with the second response only
findStableHeaders_SecondOnly(resps) ==
    IF Len(resps) = 0
    THEN [commonHeaders |-> <<>>, differenceFound |-> FALSE]
    ELSE LET baseHeaders == resps[1].ResponseHeaders
             allSame(headerName) ==
                \A i \in 2..Len(resps) :
                    i = 2 =>
                    /\ headerName \in DOMAIN resps[i].ResponseHeaders
                    /\ stringSlicesEqual(baseHeaders[headerName],
                                         resps[i].ResponseHeaders[headerName])
         IN  [ commonHeaders |->
                 [ headerName \in {n \in DOMAIN baseHeaders : allSame(n)} |->
                     Join(baseHeaders[headerName], ", ") ],
               differenceFound |-> \E n \in DOMAIN baseHeaders : ~allSame(n) ]

\* a nil http.Header is the header with no keys
findStableHeaders(resps) ==
    IF Len(resps) = 0
    THEN [commonHeaders |-> <<>>, differenceFound |-> FALSE]
    ELSE LET baseHeaders == resps[1].ResponseHeaders
             allSame(headerName) ==
                \A i \in 2..Len(resps) :
                    /\ headerName \in DOMAIN resps[i].ResponseHeaders
                    /\ stringSlicesEqual(baseHeaders[headerName],
                                         resps[i].ResponseHeaders[headerName])
         IN  [ commonHeaders |->
                 [ headerName \in {n \in DOMAIN baseHeaders : allSame(n)} |->
                     Join(baseHeaders[headerName], ", ") ],
               differenceFound |-> \E n \in DOMAIN baseHeaders : ~allSame(n) ]

\* the Response of a fetch that succeeded
FetchedResponse(ip, respHeaders, cdnDetections) ==
    [ Domain |-> ip, Error |-> "", ResponseHeaders |-> respHeaders,
      CDNDetections |-> Ptr(cdnDetections),
      ServerInfo |-> Ptr(FingerprintServer(respHeaders)),
      TCPResults |-> "{\"placeholder\": \"tcp analysis not yet integrated\"}",
      CSPDetails |-> "CSP analysis not yet integrated" ]

\* the Response of a fetch that failed
ErrorResponse(ip, err) ==
    [ Domain |-> ip, Error |-> err, ResponseHeaders |-> <<>>,
      CDNDetections |-> Nil, ServerInfo |-> Nil, TCPResults |-> "",
      CSPDetails |-> "" ]

DomainInit ==
    /\ aRecords \in RecordsUpTo(MaxIPs)
    /\ phase = "Resolved" /\ idx = 0 /\ responses = <<>>
    /\ fetchLog = <<>> /\ probeLog = <<>> /\ analysis = Nil
    /\ ProbeIdle /\ DecodeIdle /\ DetectIdle

\* AnalysisService.AnalyzeDomain up to the call of the HTTP analysis
AnalyzeDomain_NoRecords ==
    /\ phase = "Resolved" /\ Len(aRecords) = 0
    /\ phase' = "Error"
    /\ UNCHANGED <<aRecords, idx, responses, fetchLog, probeLog, analysis,
                   probeVars, decodeVars, detectVars>>

AnalyzeDomain_Begin ==
    /\ phase = "Resolved" /\ Len(aRecords) > 0
    /\ phase' = "Fetch" /\ idx' = 1
    /\ UNCHANGED <<aRecords, responses, fetchLog, probeLog, analysis,
                   probeVars, decodeVars, detectVars>>

\* the step after one iteration of the loop over the A records
AfterFetch == IF idx = Len(aRecords) THEN "Stable" ELSE "Fetch"

\* a fetch whose analyzer still holds the headers of the response before
makeRequest_Ok_SharedAnalyzer ==
    /\ phase = "Fetch"
    /\ \E respHeaders \in ResponseHeaderSamples :
       LET held == IF idx > 1 /\ responses[idx - 1].Error = ""
                   THEN responses[idx - 1].ResponseHeaders ELSE respHeaders
       IN  \E first \in AkamaiFirst(held) :
             responses' = Append(responses,
                FetchedResponse(aRecords[idx], respHeaders,
                                DetectCDNWithConfidence(held, first)))
    /\ fetchLog' = Append(fetchLog, aRecords[idx])
    /\ idx' = idx + 1 /\ phase' = AfterFetch
    /\ UNCHANGED <<aRecords, probeLog, analysis,
                   probeVars, decodeVars, detectVars>>

\* makeRequestWithTCPAnalysis returns a response
makeRequest_Ok ==
    /\ phase = "Fetch"
    /\ \E respHeaders \in ResponseHeaderSamples :
       \E first \in AkamaiFirst(respHeaders) :
         responses' = Append(responses,
            FetchedResponse(aRecords[idx], respHeaders,
                            DetectCDNWithConfidence(respHeaders, first)))
    /\ fetchLog' = Append(fetchLog, aRecords[idx])
    /\ idx' = idx + 1 /\ phase' = AfterFetch
    /\ UNCHANGED <<aRecords, probeLog, analysis,
                   probeVars, decodeVars, detectVars>>

\* a failed fetch that ends the loop over the A records
makeRequest_Fail_Break ==
    /\ phase = "Fetch"
    /\ responses' = Append(responses,
          ErrorResponse(aRecords[idx],
                        "HTTP request failed: Get http://" \o aRecords[idx]))
    /\ fetchLog' = Append(fetchLog, aRecords[idx])
    /\ idx' = idx + 1 /\ phase' = "Stable"
    /\ UNCHANGED <<aRecords, probeLog, analysis,
                   probeVars, decodeVars, detectVars>>

\* makeRequestWithTCPAnalysis returns an error
makeRequest_Fail ==
    /\ phase = "Fetch"
    /\ responses' = Append(responses,
          ErrorResponse(aRecords[idx],
                        "HTTP request failed: Get http://" \o aRecords[idx]))
    /\ fetchLog' = Append(fetchLog, aRecords[idx])
    /\ idx' = idx + 1 /\ phase' = AfterFetch
    /\ UNCHANGED <<aRecords, probeLog, analysis,
                   probeVars, decodeVars, detectVars>>

\* the end of Client.AnalyzeDomain: the stable headers and the result
AnalyzeDomain_Stable ==
    /\ phase = "Stable"
    /\ analysis' = Ptr([ StableHeaders |-> findStableHeaders(responses).commonHeaders,
                         DifferentHeadersFound |->
                             findStableHeaders(responses).differenceFound ])
    /\ phase' = "Enhance" /\ idx' = 1
    /\ UNCHANGED <<aRecords, responses, fetchLog, probeLog,
                   probeVars, decodeVars, detectVars>>

\* the step after one iteration of the loop over result.Responses
AfterEnhance == IF idx = Len(responses) THEN "Done" ELSE "Enhance"

\* the outcomes of enhanceWithCSPAnalysis
CSPOutcomes == {"=== CSP ANALYSIS ===", "Error evaluating CSP: failed"}

\* a response without error: AnalyzeHandshake returns a result
enhance_ProbeOk ==
    /\ phase = "Enhance" /\ responses[idx].Error = ""
    /\ \E csp \in CSPOutcomes :
         responses' = [responses EXCEPT
            ![idx].TCPResults = "{\"tcpResponse\": \"" \o responses[idx].Domain \o "\"}",
            ![idx].CSPDetails = csp]
    /\ probeLog' = Append(probeLog, responses[idx].Domain)
    /\ idx' = idx + 1 /\ phase' = AfterEnhance
    /\ UNCHANGED <<aRecords, fetchLog, analysis,
                   probeVars, decodeVars, detectVars>>

\* a response without error: AnalyzeHandshake returns an error
enhance_ProbeFail ==
    /\ phase = "Enhance" /\ responses[idx].Error = ""
    /\ \E csp \in CSPOutcomes :
         responses' = [responses EXCEPT
            ![idx].TCPResults = "{\"error\": \"error connecting to target: "
                                    \o responses[idx].Domain \o "\"}",
            ![idx].CSPDetails = csp]
    /\ probeLog' = Append(probeLog, responses[idx].Domain)
    /\ idx' = idx + 1 /\ phase' = AfterEnhance
    /\ UNCHANGED <<aRecords, fetchLog, analysis,
                   probeVars, decodeVars, detectVars>>

\* a response that carries an error is neither probed nor evaluated
enhance_Skip ==
    /\ phase = "Enhance" /\ responses[idx].Error # ""
    /\ idx' = idx + 1 /\ phase' = AfterEnhance
    /\ UNCHANGED <<aRecords, responses, fetchLog, probeLog, analysis,
                   probeVars, decodeVars, detectVars>>

DomainNext ==
    \/ AnalyzeDomain_NoRecords \/ AnalyzeDomain_Begin
    \/ makeRequest_Ok \/ makeRequest_Fail
    \/ AnalyzeDomain_Stable
    \/ enhance_ProbeOk \/ enhance_ProbeFail \/ enhance_Skip

SpecDomain == DomainInit /\ [][DomainNext]_vars

-----------------------------------------------------------------------------
(* The header comparison under test: one call of findStableHeaders on a    *)
(* list of responses.                                                       *)

\* the most responses a comparison under test is given
MaxSamples == 3

\* the headers of the responses compared; <<>> is the nil header of an
\* error response
CompareSamples ==
    { [Server |-> <<"nginx">>, Date |-> <<"d1">>],
      [Server |-> <<"nginx">>, Date |-> <<"d2">>],
      [Server |-> <<"nginx">>],
      ("Server" :> <<"nginx">> @@ "Set-Cookie" :> <<"a=1", "b=2">>),
      ("Server" :> <<"nginx">> @@ "Set-Cookie" :> <<"b=2", "a=1">>),
      <<>> }

\* the lists of 1..k responses
RECURSIVE SamplesUpTo(_)
SamplesUpTo(k) ==
    IF k = 0 THEN {<<>>}
    ELSE LET fewer == SamplesUpTo(k - 1) IN
         fewer \cup
         UNION { { Append(resps, [ResponseHeaders |-> h]) : h \in CompareSamples } :
                 resps \in fewer }

CompareInit ==
    /\ responses \in (SamplesUpTo(MaxSamples) \ {<<>>})
    /\ aRecords = <<>> /\ phase = "Compare" /\ idx = 0
    /\ fetchLog = <<>> /\ probeLog = <<>> /\ analysis = Nil
    /\ ProbeIdle /\ DecodeIdle /\ DetectIdle

\* one call of findStableHeaders(responses)
CompareCall ==
    /\ phase = "Compare" /\ analysis = Nil
    /\ analysis' = Ptr([ StableHeaders |-> findStableHeaders(responses).commonHeaders,
                         DifferentHeadersFound |->
                             findStableHeaders(responses).differenceFound ])
    /\ UNCHANGED <<aRecords, phase, idx, responses, fetchLog, probeLog,
                   probeVars, decodeVars, detectVars>>

CompareNext == CompareCall

SpecCompare == CompareInit /\ [][CompareNext]_vars

-----------------------------------------------------------------------------
(* The connection probe.  impl = "modern" is Client.AnalyzeHandshake of    *)
(* internal/tcp, impl = "legacy" is analyzeTCPHandshake of server.go and   *)
(* impl = "retry" is one call of Client.readWithRetries on an open         *)
(* connection.  Every outcome of the network (dial, write, read) is a      *)
(* choice of the environment.                                              *)

\* Config.MaxRetries: the attempt count of the read loop
MaxRetries == 3

\* the size of a read that returns only part of what the peer sent
ChunkLen == 8

WireSamples ==
    { <<>>,
      <<72, 84, 84, 80, 47, 49, 46, 49>>,
      <<0, 80, 1, 187, 0, 0, 0, 1, 0, 0, 0, 2, 80, 24, 0, 255, 255, 255, 0, 0>>,
      <<0, 80, 1, 187, 0, 0, 0, 1, 0, 0, 0, 2, 96, 18, 0, 255, 255, 255, 0, 0,
        2, 4, 5, 180>>,
      <<0, 80, 1, 187, 0, 0, 0, 1, 0, 0, 0, 2, 96, 18, 0, 255, 255, 255, 0, 0>>,
      <<0, 80, 1, 187, 0, 0, 0, 1, 0, 0, 0, 2, 96, 18, 0, 255, 255, 255, 0, 0,
        5, 0, 0, 0>>,
      <<0, 80, 1, 187, 0, 0, 0, 1, 0, 0, 0, 2, 96, 18, 0, 255, 255, 255, 0, 0,
        9, 0, 0, 0>> }

LatencySamples == {0, 40, 120, 400}

\* an entry of the history: the operation and how it ended ("ok", "fail",
\* or "timeout" for a read that ended with a timeout-class error)
Ev(op, out) == [op |-> op, out |-> out]

\* new(AnalysisResult) / TCPResults{}
EmptyResult == [TCPResponse |-> Nil, Error |-> ""]

\* the sizes a single conn.Read may return
ReadSizes ==
    LET remaining == Len(wire) - totalRead IN
    {0, remaining} \cup {k \in {ChunkLen} : k <= remaining}

\* an assessment whose first threshold is inclusive
assessConnectionQuality_Inclusive(connectMs, writeLatency, readLatency) ==
    LET totalLatency == connectMs + writeLatency + readLatency IN
    IF totalLatency <= 50 THEN "Excellent"
    ELSE IF totalLatency < 150 THEN "Good"
    ELSE IF totalLatency < 300 THEN "Fair"
    ELSE "Poor"

\* an assessment that looks at the read latency only once it is non-zero
assessConnectionQuality_ReadFirst(connectMs, writeLatency, readLatency) ==
    LET totalLatency == IF readLatency > 0 THEN readLatency
                        ELSE connectMs + writeLatency IN
    IF totalLatency < 50 THEN "Excellent"
    ELSE IF totalLatency < 150 THEN "Good"
    ELSE IF totalLatency < 300 THEN "Fair"
    ELSE "Poor"

assessConnectionQuality(connectMs, writeLatency, readLatency) ==
    LET totalLatency == connectMs + writeLatency + readLatency IN
    IF totalLatency < 50 THEN "Excellent"
    ELSE IF totalLatency < 150 THEN "Good"
    ELSE IF totalLatency < 300 THEN "Fair"
    ELSE "Poor"

\* the zero value of tcp.Response with the two fields analyzeConnection sets first
NewResponse(port, connectMs) ==
    [ SourcePort |-> 0, DestinationPort |-> port, SequenceNumber |-> 0,
      AckNumber |-> 0, DataOffset |-> 0, Flags |-> 0, WindowSize |-> 0,
      Checksum |-> 0, UrgentPointer |-> 0,
      SYNFlag |-> FALSE, ACKFlag |-> FALSE, FINFlag |-> FALSE,
      RSTFlag |-> FALSE, PSHFlag |-> FALSE, URGFlag |-> FALSE,
      ECEFlag |-> FALSE, CWRFlag |-> FALSE, TCPOptions |-> <<>>,
      ConnectTime |-> connectMs, WriteLatency |-> 0, ReadLatency |-> 0,
      KeepAliveSupported |-> FALSE, ConnectionQuality |-> "" ]

ProbeInit ==
    /\ impl \in {"modern", "legacy", "retry"}
    /\ pc = IF impl = "retry" THEN "Read" ELSE "Resolving"
    /\ conn = IF impl = "retry" THEN "tcp" ELSE "none"
    /\ wire \in WireSamples
    /\ retries = 0 /\ totalRead = 0 /\ readErr = ""
    /\ partial = Nil
    /\ result = EmptyResult
    /\ goErr = ""
    /\ readOut = Nil
    /\ log = <<>>
    /\ DecodeIdle /\ DetectIdle /\ DomainIdle

ProbeFrame == UNCHANGED <<impl, wire, decodeVars, detectVars, domainVars>>

\* return result, fmt.Errorf(...)
ReturnError(msg) ==
    /\ goErr' = msg
    /\ pc' = "Failed"

----
\* net.ResolveTCPAddr, in both probes
ResolveOk ==
    /\ impl \in {"modern", "legacy"} /\ pc = "Resolving"
    /\ pc' = "DialTCP"
    /\ log' = Append(log, Ev("resolve", "ok"))
    /\ UNCHANGED <<conn, retries, totalRead, readErr, partial, result, goErr,
                   readOut>>
    /\ ProbeFrame

ResolveFail ==
    /\ impl \in {"modern", "legacy"} /\ pc = "Resolving"
    /\ ReturnError("error resolving address")
    /\ log' = Append(log, Ev("resolve", "fail"))
    /\ UNCHANGED <<conn, retries, totalRead, readErr, partial, result, readOut>>
    /\ ProbeFrame

\* establishConnection / the dial block of analyzeTCPHandshake: net.DialTCP
DialTCPOk ==
    /\ impl \in {"modern", "legacy"} /\ pc = "DialTCP"
    /\ conn' = "tcp"
    /\ pc' = IF impl = "modern" THEN "Analyze" ELSE "Write"
    /\ log' = Append(log, Ev("dialTCP", "ok"))
    /\ UNCHANGED <<retries, totalRead, readErr, partial, result, goErr, readOut>>
    /\ ProbeFrame

DialTCPFail ==
    /\ impl \in {"modern", "legacy"} /\ pc = "DialTCP"
    /\ pc' = "DialTLS"
    /\ log' = Append(log, Ev("dialTCP", "fail"))
    /\ UNCHANGED <<conn, retries, totalRead, readErr, partial, result, goErr,
                   readOut>>
    /\ ProbeFrame

\* tls.Dial, tried once the TCP dial has failed
DialTLSOk ==
    /\ impl \in {"modern", "legacy"} /\ pc = "DialTLS"
    /\ conn' = "tls"
    /\ pc' = IF impl = "modern" THEN "Analyze" ELSE "Write"
    /\ log' = Append(log, Ev("dialTLS", "ok"))
    /\ UNCHANGED <<retries, totalRead, readErr, partial, result, goErr, readOut>>
    /\ ProbeFrame

\* a failed TLS dial that goes back to the TCP dial
DialTLSFail_Retry ==
    /\ impl \in {"modern", "legacy"} /\ pc = "DialTLS"
    /\ Cardinality({i \in 1..Len(log) : log[i].op = "dialTLS"}) < MaxRetries
    /\ pc' = "DialTCP"
    /\ log' = Append(log, Ev("dialTLS", "fail"))
    /\ UNCHANGED <<conn, retries, totalRead, readErr, partial, result, goErr,
                   readOut>>
    /\ ProbeFrame

DialTLSFail ==
    /\ impl \in {"modern", "legacy"} /\ pc = "DialTLS"
    /\ ReturnError("error connecting to target")
    /\ log' = Append(log, Ev("dialTLS", "fail"))
    /\ UNCHANGED <<conn, retries, totalRead, readErr, partial, result, readOut>>
    /\ ProbeFrame

----
(* Client.analyzeConnection (modern).  It never returns an error, so the   *)
(* branch of AnalyzeHandshake that stores err.Error() cannot be taken.     *)

\* lines 122-125 and, for a *net.TCPConn, the local port of lines 130-134
analyzeConnection_Begin ==
    /\ impl = "modern" /\ pc = "Analyze"
    /\ \E port \in {80, 443}, connectMs \in LatencySamples :
         partial' = Ptr([NewResponse(port, connectMs) EXCEPT
                           !.SourcePort = IF conn = "tcp" THEN 50000 ELSE 0])
    /\ pc' = IF conn = "tcp" THEN "KeepAlive" ELSE "Finish"
    /\ UNCHANGED <<conn, retries, totalRead, readErr, result, goErr, readOut,
                   log>>
    /\ ProbeFrame

\* lines 137-139: tcpConn.SetKeepAlive(true)
analyzeConnection_KeepAlive ==
    /\ impl = "modern" /\ pc = "KeepAlive"
    /\ \E ok \in BOOLEAN :
         partial' = Ptr([partial[1] EXCEPT !.KeepAliveSupported = ok])
    /\ pc' = "Write"
    /\ UNCHANGED <<conn, retries, totalRead, readErr, result, goErr, readOut,
                   log>>
    /\ ProbeFrame

\* lines 142-147: the write error is tested only to record the latency
analyzeConnection_Write ==
    /\ impl = "modern" /\ pc = "Write"
    /\ \E out \in {"ok", "fail"}, ms \in LatencySamples :
         /\ partial' = Ptr([partial[1] EXCEPT
                              !.WriteLatency = IF out = "ok" THEN ms ELSE @])
         /\ log' = Append(log, Ev("write", out))
    /\ pc' = "Read"
    /\ UNCHANGED <<conn, retries, totalRead, readErr, result, goErr, readOut>>
    /\ ProbeFrame

\* lines 150-156: one read into a local buffer that is then dropped
analyzeConnection_Read ==
    /\ impl = "modern" /\ pc = "Read"
    /\ \E out \in {"ok", "timeout", "fail"}, ms \in LatencySamples :
         /\ partial' = Ptr([partial[1] EXCEPT
                              !.ReadLatency = IF out = "ok" THEN ms ELSE @])
         /\ log' = Append(log, Ev("read", out))
    /\ pc' = "Finish"
    /\ UNCHANGED <<conn, retries, totalRead, readErr, result, goErr, readOut>>
    /\ ProbeFrame

\* lines 160-167 and AnalyzeHandshake lines 65-66
analyzeConnection_Finish ==
    /\ impl = "modern" /\ pc = "Finish"
    /\ LET r == partial[1] IN
       result' = [result EXCEPT !.TCPResponse =
                    Ptr([r EXCEPT
                           !.WindowSize = 65535,
                           !.ACKFlag = TRUE,
                           !.PSHFlag = TRUE,
                           !.ConnectionQuality =
                               assessConnectionQuality(r.ConnectTime,
                                   r.WriteLatency, r.ReadLatency)])]
    /\ pc' = "Done"
    /\ UNCHANGED <<conn, retries, totalRead, readErr, partial, goErr, readOut,
                   log>>
    /\ ProbeFrame

----
(* analyzeTCPHandshake (legacy), from the write of the request on          *)

\* lines 434-438
analyzeTCPHandshake_WriteOk ==
    /\ impl = "legacy" /\ pc = "Write"
    /\ pc' = "Read"
    /\ log' = Append(log, Ev("write", "ok"))
    /\ UNCHANGED <<conn, retries, totalRead, readErr, partial, result, goErr,
                   readOut>>
    /\ ProbeFrame

analyzeTCPHandshake_WriteFail ==
    /\ impl = "legacy" /\ pc = "Write"
    /\ ReturnError("error writing to connection")
    /\ log' = Append(log, Ev("write", "fail"))
    /\ UNCHANGED <<conn, retries, totalRead, readErr, partial, result, readOut>>
    /\ ProbeFrame

\* lines 449-457: a read that returns no error ends the loop
analyzeTCPHandshake_ReadOk ==
    /\ impl = "legacy" /\ pc = "Read" /\ retries < MaxRetries
    /\ \E n \in ReadSizes : totalRead' = totalRead + n
    /\ pc' = "AfterRead"
    /\ log' = Append(log, Ev("read", "ok"))
    /\ UNCHANGED <<conn, retries, readErr, partial, result, goErr, readOut>>
    /\ ProbeFrame

\* lines 458-462: a timeout sleeps and goes round the loop again
analyzeTCPHandshake_ReadTimeout ==
    /\ impl = "legacy" /\ pc = "Read" /\ retries < MaxRetries
    /\ \E n \in ReadSizes : totalRead' = totalRead + n
    /\ retries' = retries + 1
    /\ pc' = IF retries + 1 < MaxRetries THEN "Read" ELSE "AfterRead"
    /\ log' = log \o <<Ev("read", "timeout"), Ev("sleep", "ok")>>
    /\ UNCHANGED <<conn, readErr, partial, result, goErr, readOut>>
    /\ ProbeFrame

\* a non-timeout error that goes round the loop again
analyzeTCPHandshake_ReadError_Continue ==
    /\ impl = "legacy" /\ pc = "Read" /\ retries < MaxRetries
    /\ \E n \in ReadSizes : totalRead' = totalRead + n
    /\ readErr' = "read error"
    /\ retries' = retries + 1
    /\ pc' = IF retries + 1 < MaxRetries THEN "Read" ELSE "AfterRead"
    /\ log' = Append(log, Ev("read", "fail"))
    /\ UNCHANGED <<conn, partial, result, goErr, readOut>>
    /\ ProbeFrame

\* lines 463-465: any other error is kept in readErr and ends the loop
analyzeTCPHandshake_ReadError ==
    /\ impl = "legacy" /\ pc = "Read" /\ retries < MaxRetries
    /\ \E n \in ReadSizes : totalRead' = totalRead + n
    /\ readErr' = "read error"
    /\ pc' = "AfterRead"
    /\ log' = Append(log, Ev("read", "fail"))
    /\ UNCHANGED <<conn, retries, partial, result, goErr, readOut>>
    /\ ProbeFrame

\* lines 468-470
analyzeTCPHandshake_NoData ==
    /\ impl = "legacy" /\ pc = "AfterRead" /\ totalRead = 0
    /\ ReturnError("no data received")
    /\ UNCHANGED <<conn, retries, totalRead, readErr, partial, result, readOut,
                   log>>
    /\ ProbeFrame

\* a decode step that stores the record also when the decoder reports an error
analyzeTCPHandshake_Decode_KeepsRecord ==
    /\ impl = "legacy" /\ pc = "AfterRead" /\ totalRead > 0
    /\ LET d == analyzeTCPResponse(Received(SubSeq(wire, 1, totalRead))) IN
       /\ result' = IF d.kind = "error"
                    THEN [result EXCEPT !.Error = d.err,
                                        !.TCPResponse = Ptr(NewResponse(0, 0))]
                    ELSE IF d.kind = "ok"
                         THEN [result EXCEPT !.TCPResponse = d.response]
                         ELSE result
       /\ pc' = CASE d.kind = "error" -> "Failed"
                  [] d.kind = "ok"    -> "Done"
                  [] d.kind = "panic" -> "Panicked"
                  [] d.kind = "hang"  -> "Hung"
       /\ log' = Append(log, Ev("decode", d.kind))
    /\ UNCHANGED <<conn, retries, totalRead, readErr, partial, goErr, readOut>>
    /\ ProbeFrame

\* lines 472-481: analyzeTCPResponse(buf[:totalRead]) and the result it fills
analyzeTCPHandshake_Decode ==
    /\ impl = "legacy" /\ pc = "AfterRead" /\ totalRead > 0
    /\ LET d == analyzeTCPResponse(Received(SubSeq(wire, 1, totalRead))) IN
       /\ result' = IF d.kind = "error" THEN [result EXCEPT !.Error = d.err]
                    ELSE IF d.kind = "ok"
                         THEN [result EXCEPT !.TCPResponse = d.response]
                         ELSE result
       /\ pc' = CASE d.kind = "error" -> "Failed"
                  [] d.kind = "ok"    -> "Done"
                  [] d.kind = "panic" -> "Panicked"
                  [] d.kind = "hang"  -> "Hung"
       /\ log' = Append(log, Ev("decode", d.kind))
    /\ UNCHANGED <<conn, retries, totalRead, readErr, partial, goErr, readOut>>
    /\ ProbeFrame

----
(* Client.readWithRetries (modern)                                         *)

ReadResult(data, err) == [data |-> data, err |-> err]

\* lines 113-117: what follows the loop
afterLoop(total) ==
    IF total = 0 THEN ReadResult(Nil, "no data received")
    ELSE ReadResult(Ptr(SubSeq(wire, 1, total)), "")

\* lines 96-103: a read that returns no error ends the loop
readWithRetries_ReadOk ==
    /\ impl = "retry" /\ pc = "Read" /\ retries < MaxRetries
    /\ \E n \in ReadSizes :
         /\ totalRead' = totalRead + n
         /\ readOut' = Ptr(afterLoop(totalRead + n))
    /\ pc' = "Returned"
    /\ log' = Append(log, Ev("read", "ok"))
    /\ UNCHANGED <<conn, retries, readErr, partial, result, goErr>>
    /\ ProbeFrame

\* lines 105-108: a timeout sleeps and goes round the loop again
readWithRetries_ReadTimeout ==
    /\ impl = "retry" /\ pc = "Read" /\ retries < MaxRetries
    /\ \E n \in ReadSizes :
         /\ totalRead' = totalRead + n
         /\ readOut' = IF retries + 1 < MaxRetries THEN readOut
                       ELSE Ptr(afterLoop(totalRead + n))
    /\ retries' = retries + 1
    /\ pc' = IF retries + 1 < MaxRetries THEN "Read" ELSE "Returned"
    /\ log' = log \o <<Ev("read", "timeout"), Ev("sleep", "ok")>>
    /\ UNCHANGED <<conn, readErr, partial, result, goErr>>
    /\ ProbeFrame

\* line 110: any other error returns at once, without the bytes read so far
readWithRetries_ReadError ==
    /\ impl = "retry" /\ pc = "Read" /\ retries < MaxRetries
    /\ \E n \in ReadSizes : totalRead' = totalRead + n
    /\ readOut' = Ptr(ReadResult(Nil, "read error"))
    /\ pc' = "Returned"
    /\ log' = Append(log, Ev("read", "fail"))
    /\ UNCHANGED <<conn, retries, readErr, partial, result, goErr>>
    /\ ProbeFrame

ProbeNext ==
    \/ ResolveOk \/ ResolveFail
    \/ DialTCPOk \/ DialTCPFail \/ DialTLSOk \/ DialTLSFail
    \/ analyzeConnection_Begin \/ analyzeConnection_KeepAlive
    \/ analyzeConnection_Write \/ analyzeConnection_Read
    \/ analyzeConnection_Finish
    \/ analyzeTCPHandshake_WriteOk \/ analyzeTCPHandshake_WriteFail
    \/ analyzeTCPHandshake_ReadOk \/ analyzeTCPHandshake_ReadTimeout
    \/ analyzeTCPHandshake_ReadError
    \/ analyzeTCPHandshake_NoData \/ analyzeTCPHandshake_Decode
    \/ readWithRetries_ReadOk \/ readWithRetries_ReadTimeout
    \/ readWithRetries_ReadError

SpecProbe == ProbeInit /\ [][ProbeNext]_vars

-----------------------------------------------------------------------------
(* The quality assessment under test: one call of assessConnectionQuality  *)
(* on a response that carries the three latencies.                         *)

\* latencies in milliseconds, on both sides of every threshold
QualityLatencies == {0, 1, 49, 50, 100, 149, 150, 299, 300, 1000}

QualityInit ==
    /\ impl = "quality" /\ pc = "Assess"
    /\ \E c \in QualityLatencies, w \in QualityLatencies, r \in QualityLatencies :
         partial = Ptr([NewResponse(80, c) EXCEPT
                          !.WriteLatency = w, !.ReadLatency = r])
    /\ conn = "none" /\ wire = <<>> /\ retries = 0 /\ totalRead = 0
    /\ readErr = "" /\ result = Nil /\ goErr = "" /\ readOut = Nil /\ log = <<>>
    /\ DecodeIdle /\ DetectIdle /\ DomainIdle

\* line 165: response.ConnectionQuality = c.assessConnectionQuality(...)
assessConnectionQuality_Call ==
    /\ impl = "quality" /\ pc = "Assess"
    /\ partial' = Ptr([partial[1] EXCEPT !.ConnectionQuality =
                         assessConnectionQuality(partial[1].ConnectTime,
                             partial[1].WriteLatency, partial[1].ReadLatency)])
    /\ pc' = "Assessed"
    /\ UNCHANGED <<conn, retries, totalRead, readErr, result, goErr, readOut, log>>
    /\ ProbeFrame

QualityNext == assessConnectionQuality_Call

SpecQuality == QualityInit /\ [][QualityNext]_vars

-----------------------------------------------------------------------------
(* Properties of the connection probe                                      *)

Probing == impl \in {"modern", "legacy"}
Returned == pc \in {"Done", "Failed"}

Happened(op, out) == \E i \in 1..Len(log) : log[i] = Ev(op, out)
Count(op) == Cardinality({i \in 1..Len(log) : log[i].op = op})
Reads == {i \in 1..Len(log) : log[i].op = "read"}

\* the error the caller sees: the Go error or the Error field of the result
ErrorSurfaced == goErr # "" \/ result.Error # ""

\* the probe's operational failures
ConnectFailed == Happened("dialTCP", "fail") /\ Happened("dialTLS", "fail")
WriteFailed   == Happened("write", "fail")
ReadFailed    ==
    /\ Reads # {}
    /\ totalRead = 0
    /\ \A i \in Reads : log[i].out # "ok"
DecodeShort   == Happened("decode", "error")

\* C2: every operational failure of a probe (connect, write, read, fewer
\* than 20 bytes to decode) is surfaced as an explicit error on the probe
\* result, and a probe whose write or read failed reports no sample.
C2_FailureIsSurfaced ==
    (Probing /\ Returned) =>
        /\ (ConnectFailed \/ WriteFailed \/ ReadFailed \/ DecodeShort)
              => ErrorSurfaced
        /\ (WriteFailed \/ ReadFailed) => result.TCPResponse = Nil

\* C2 on the legacy probe alone, where the claim holds
C2_LegacyFailureIsSurfaced ==
    (impl = "legacy" /\ Returned) =>
        /\ (ConnectFailed \/ WriteFailed \/ ReadFailed \/ DecodeShort)
              => ErrorSurfaced
        /\ (WriteFailed \/ ReadFailed) => result.TCPResponse = Nil

\* C3: the probe goes Resolving -> Connecting -> Probing(write) -> Reading
\* -> Decoding -> Done|Failed: on an established connection the request is
\* written before any read, and Done is reached only after the received
\* bytes have been decoded into the reported fields.
C3_StateOrder ==
    Probing =>
        /\ \A j \in Reads :
              \E i \in 1..(j - 1) : log[i] = Ev("write", "ok")
        /\ pc = "Done" =>
              /\ conn # "none"
              /\ Happened("write", "ok")
              /\ Reads # {}
              /\ log[Len(log)] = Ev("decode", "ok")
              /\ result.TCPResponse =
                   analyzeTCPResponse(
                       Received(SubSeq(wire, 1, totalRead))).response

\* C3 on the legacy probe alone, where the claim holds
C3_LegacyStateOrder == impl = "legacy" => C3_StateOrder

ReadPhaseOver ==
    \/ impl = "legacy" /\ pc \in {"AfterRead", "Done", "Failed", "Panicked", "Hung"}
                       /\ Reads # {}
    \/ impl = "retry" /\ pc = "Returned"

\* the read phase handed the accumulated bytes on
BytesPassedOn ==
    \/ impl = "legacy" /\ (pc = "AfterRead" \/ Happened("decode", "ok")
                            \/ Happened("decode", "error")
                            \/ Happened("decode", "panic")
                            \/ Happened("decode", "hang"))
    \/ impl = "retry" /\ readOut # Nil
                      /\ readOut[1] = ReadResult(Ptr(SubSeq(wire, 1, totalRead)), "")

\* the read phase failed with an error
ReadPhaseError ==
    \/ impl = "legacy" /\ (pc = "AfterRead" \/ (pc = "Failed" /\ goErr # ""))
    \/ impl = "retry" /\ readOut # Nil /\ readOut[1].data = Nil
                      /\ readOut[1].err # ""

\* C6: a read phase that ends with zero bytes fails with an error; one that
\* has accumulated any bytes passes those bytes on as its result, whatever
\* timeouts or errors the attempts returned.
C6_PartialReadAccepted ==
    ReadPhaseOver =>
        /\ totalRead = 0 => ReadPhaseError
        /\ totalRead > 0 => BytesPassedOn

\* C6 on the legacy probe alone, where the claim holds
C6_LegacyPartialReadAccepted == impl = "legacy" => C6_PartialReadAccepted

\* C7: decoding a buffer shorter than 20 bytes always returns the explicit
\* decode error and no struct; decoding a buffer of 20 or more bytes never
\* returns that error.
C7_ShortBufferIsDecodeError ==
    decoded # Pending =>
        /\ Len(buf.bytes) < 20 =>
              /\ decoded.kind = "error"
              /\ decoded.err = "Invalid TCP packet length\n"
              /\ decoded.response = Nil
        /\ Len(buf.bytes) >= 20 =>
              /\ decoded.kind # "error"
              /\ decoded.err = ""

\* a 19-byte buffer has been decoded and rejected
C7_Witness ==
    /\ Len(buf.bytes) = 19
    /\ decoded.kind = "error"

\* the layout of the fixed record, stated on the bytes of the input
LayoutHolds(b, r) ==
    /\ r.SourcePort      = 256 * b[1] + b[2]
    /\ r.DestinationPort = 256 * b[3] + b[4]
    /\ r.SequenceNumber  = 16777216 * b[5] + 65536 * b[6] + 256 * b[7] + b[8]
    /\ r.AckNumber       = 16777216 * b[9] + 65536 * b[10] + 256 * b[11] + b[12]
    /\ r.DataOffset      = 4 * (b[13] \div 16)
    /\ r.WindowSize      = 256 * b[15] + b[16]
    /\ r.Checksum        = 256 * b[17] + b[18]
    /\ r.UrgentPointer   = 256 * b[19] + b[20]
    /\ r.FINFlag = (b[14] % 2 = 1)
    /\ r.SYNFlag = ((b[14] \div 2) % 2 = 1)
    /\ r.RSTFlag = ((b[14] \div 4) % 2 = 1)
    /\ r.PSHFlag = ((b[14] \div 8) % 2 = 1)
    /\ r.ACKFlag = ((b[14] \div 16) % 2 = 1)
    /\ r.URGFlag = ((b[14] \div 32) % 2 = 1)
    /\ r.ECEFlag = ((b[14] \div 64) % 2 = 1)
    /\ r.CWRFlag = (b[14] \div 128 = 1)

\* the buffer 0050 01BB 00000001 00000002 50 18 00FF FFFF 0000
ExampleBytes ==
    <<0, 80, 1, 187, 0, 0, 0, 1, 0, 0, 0, 2, 80, 24, 0, 255, 255, 255, 0, 0>>

ExampleHolds(r) ==
    /\ r.SourcePort = 80 /\ r.DestinationPort = 443
    /\ r.SequenceNumber = 1 /\ r.AckNumber = 2
    /\ r.DataOffset = 20 /\ r.WindowSize = 255
    /\ r.ACKFlag /\ r.PSHFlag /\ ~r.SYNFlag

\* C8: for every buffer of at least 20 bytes the decoder yields the record
\* whose fields are the big-endian fields of the fixed layout and whose
\* flags are the bits of byte 13.
C8_EveryLongBufferDecodes ==
    (decoded # Pending /\ Len(buf.bytes) >= 20) =>
        /\ decoded.kind = "ok"
        /\ LayoutHolds(buf.bytes, decoded.response[1])
        /\ (buf.bytes = ExampleBytes => ExampleHolds(decoded.response[1]))

\* C8, on the inputs for which the decoder returns: the fields are right
C8_LayoutWhenReturned ==
    (decoded # Pending /\ decoded.kind = "ok") =>
        /\ LayoutHolds(buf.bytes, decoded.response[1])
        /\ (buf.bytes = ExampleBytes => ExampleHolds(decoded.response[1]))

\* the example buffer has been decoded
C8_ExampleDecoded == buf.bytes = ExampleBytes /\ decoded.kind = "ok"

-----------------------------------------------------------------------------
(* Properties of the probe result                                          *)

\* AnalyzeHandshake or analyzeTCPHandshake has returned
ProbeReturned == impl \in {"modern", "legacy"} /\ pc \in {"Done", "Failed"}

HasSample == result.TCPResponse # Nil
HasError == result.Error # ""

\* C29: a probe result never has both a TCPResponse and a non-empty Error;
\* when the probe returns a Go error the TCPResponse is absent, and when it
\* returns a nil Go error the TCPResponse or the Error is set
C29_SampleOrError ==
    /\ impl \in {"modern", "legacy"} => ~(HasSample /\ HasError)
    /\ ProbeReturned =>
          /\ goErr # "" => ~HasSample
          /\ goErr = "" => (HasSample \/ HasError)

\* the legacy probe returned a nil Go error with the decoder's error stored
C29_ErrorStoredSeen ==
    /\ ProbeReturned /\ impl = "legacy" /\ goErr = ""
    /\ HasError /\ ~HasSample

\* a probe returned a sample, another a Go error
C29_SampleSeen == ProbeReturned /\ goErr = "" /\ HasSample /\ ~HasError

C29_GoErrorSeen == ProbeReturned /\ goErr # "" /\ ~HasSample /\ ~HasError

-----------------------------------------------------------------------------
(* Properties of the option walker                                         *)

\* the options region the decoder handed to the walker
OptionsWalked == Slice(buf, 20, 4 * (buf.bytes[13] \div 16))

Walk == decoded.walk[1]

WalkerRan == decoded # Pending /\ decoded.walk # Nil

\* the bytes an option at index i (from 0) takes: 1 for kinds 0 and 1, 4 for
\* kind 2, 3 for kind 3, 2 for kind 4, 10 for kind 8, and the declared
\* length byte otherwise (beyond the buffer when that byte is missing)
SizeAt(options, i) ==
    LET kind == options[i + 1] IN
    CASE kind \in {0, 1} -> 1
      [] kind = 2 -> 4
      [] kind = 3 -> 3
      [] kind = 4 -> 2
      [] kind = 8 -> 10
      [] OTHER -> IF i + 1 >= Len(options) THEN Len(options) + 1
                  ELSE options[i + 2]

\* the walk as stated: an option that would overrun the buffer stops the
\* walk, every other option is decoded and its bytes are consumed
RECURSIVE StatedWalk(_, _, _)
StatedWalk(options, i, acc) ==
    IF i >= Len(options) THEN Walked("done", acc, i)
    ELSE IF i + SizeAt(options, i) > Len(options) THEN Walked("truncated", acc, i)
    ELSE IF SizeAt(options, i) = 0 THEN Walked("truncated", acc, i)
    ELSE StatedWalk(options, i + SizeAt(options, i),
                    Append(acc, <<options[i + 1], SizeAt(options, i)>>))

\* the kind and the bytes consumed of every option the walker decoded
KindsAndSizes(w) == [k \in 1..Len(w.opts) |-> <<w.opts[k].Kind, w.opts[k].Length>>]

\* C24: an option whose fixed or declared length would overrun the option
\* buffer stops the walk at that option without error or fault, the options
\* decoded before it are kept and no later one is decoded; otherwise the
\* walker consumes 1 byte for kinds 0 and 1, 4 for kind 2, 3 for kind 3, 2
\* for kind 4, 10 for kind 8 and the declared length for kind 5 and others
C24_WalkAsStated ==
    WalkerRan =>
        /\ Walk.status \in {"done", "truncated"}
        /\ KindsAndSizes(Walk) = StatedWalk(OptionsWalked, 0, <<>>).opts
        /\ Walk.status = "truncated" =>
              Walk.at = StatedWalk(OptionsWalked, 0, <<>>).at

\* C24 on the walks that return, kind 4 in the last byte aside
C24_ReturnedWalkAsStated ==
    (WalkerRan /\ Walk.status \in {"done", "truncated"}
        /\ Walk.at <= Len(OptionsWalked)) =>
        /\ KindsAndSizes(Walk) = StatedWalk(OptionsWalked, 0, <<>>).opts
        /\ Walk.status = "truncated" =>
              Walk.at = StatedWalk(OptionsWalked, 0, <<>>).at

\* a walk stopped at an option that overruns, with an option kept before it
C24_TruncatedSeen ==
    /\ WalkerRan /\ Walk.status = "truncated" /\ Len(Walk.opts) >= 1
    /\ Walk.at < Len(OptionsWalked)

\* C25: the walker terminates on every option byte sequence: each iteration
\* stops the walk or advances the index by at least 1 byte, also when kind 5
\* or an unknown kind declares the length 0
C25_WalkerTerminates ==
    WalkerRan => Walk.status # "hang"

\* C25 on the kinds with a fixed size and on kind 5
C25_KnownKindsTerminate ==
    (WalkerRan /\ Walk.status = "hang") =>
        OptionsWalked[Walk.at + 1] \notin {0, 1, 2, 3, 4, 5, 8}

\* a walk over several options ran to the end of the buffer
C25_DoneSeen ==
    /\ WalkerRan /\ Walk.status = "done" /\ Len(Walk.opts) >= 3

\* C26: decoding a buffer of at least 20 bytes never indexes or slices
\* outside the received bytes: the options region [20, dataOffset) lies
\* within them, and the payload slice of a kind 5 option is well-formed also
\* when the declared length is 0 or 1
C26_WithinReceivedBytes ==
    (decoded # Pending /\ Len(buf.bytes) >= 20) =>
        /\ decoded.kind # "panic"
        /\ WalkerRan =>
              /\ Walk.status # "panic"
              /\ Len(OptionsWalked) <= Len(buf.bytes) - 20

\* C26 on the buffers that hold the whole header and no short kind 5 option
C26_WholeHeaderReceived ==
    (decoded # Pending /\ Len(buf.bytes) >= 20
        /\ 4 * (buf.bytes[13] \div 16) <= Len(buf.bytes)
        /\ \A i \in 21..(Len(buf.bytes) - 1) :
              buf.bytes[i] = 5 => buf.bytes[i + 1] >= 2) =>
        /\ decoded.kind # "panic"
        /\ WalkerRan => Walk.status # "panic"

\* a buffer that holds its whole header and options was decoded
C26_WholeHeaderSeen ==
    /\ decoded.kind = "ok" /\ WalkerRan /\ Len(OptionsWalked) = 8
    /\ Len(buf.bytes) = 28 /\ Walk.status = "done"

-----------------------------------------------------------------------------
(* Properties of the detectors                                             *)

Detected(key) == detections # Nil /\ detections[1][key].Detected

\* the Detection of a provider no rule matched
Clean(d) == d.Detected = FALSE /\ d.Confidence = "Low" /\ d.Evidence = <<>>

AllClean == detections # Nil /\ \A key \in ProviderKeys : Clean(detections[1][key])

\* C9: for every header input and every provider, a Detection with
\* Detected = true has a non-empty Evidence list
C9_DetectedHasEvidence ==
    detections # Nil =>
        \A key \in ProviderKeys :
            detections[1][key].Detected => Len(detections[1][key].Evidence) > 0

\* a provider detected by two accumulated rules, and Fastly detected by the
\* X-Cache correlation alone
C9_Witness ==
    /\ detections # Nil
    /\ \E key \in ProviderKeys : Len(detections[1][key].Evidence) >= 2
          /\ detections[1][key].Detected

C9_WitnessCorrelation ==
    /\ Detected("fastly")
    /\ detections[1]["fastly"].Evidence =
          <<"X-Cache header with hit/miss pattern and Fastly indicators">>

\* header names that belong to one provider
ProviderHeaderNames ==
    { "Cf-Ray", "Cf-Cache-Status", "Cf-Connecting-Ip", "Cf-Ipcountry",
      "X-Amz-Cf-Id", "True-Client-Ip", "X-Served-By", "X-Timer",
      "X-Edge-Location", "X-Iinfo", "X-Cdn", "X-Sucuri-Id", "X-Sucuri-Cache" }
    \cup {CanonicalMIMEHeaderKey(name) : name \in akamaiHeaders}
    \cup {CanonicalMIMEHeaderKey(fastlyHeaders[i]) : i \in 1..Len(fastlyHeaders)}

\* words that name a provider inside a value
ProviderWords ==
    { "cloudflare", "cloudfront", "akamai", "fastly", "keycdn", "maxcdn",
      "incapsula", "visid_incap", "sucuri", "awsalb" }

\* no header of the response is provider-specific: no name belongs to a
\* provider and no value names one
NoProviderHeader(h) ==
    /\ DOMAIN h \cap ProviderHeaderNames = {}
    /\ \A key \in DOMAIN h : \A i \in 1..Len(h[key]) : \A word \in ProviderWords :
          ~Contains(ToLower(h[key][i]), word)

\* the generic cache signals: X-Cache reports hit or miss next to another
\* header of the signal set, or Via names the varnish cache
GenericSignals(h) == {name \in {"X-Cache", "Age", "Via", "Cache-Control", "Vary"} :
                         name \in DOMAIN h /\ Len(h[name]) > 0 /\ h[name][1] # ""}

CacheCorrelation(h) ==
    /\ "X-Cache" \in GenericSignals(h)
    /\ Contains(ToLower(h["X-Cache"][1]), "hit")
          \/ Contains(ToLower(h["X-Cache"][1]), "miss")
    /\ Cardinality(GenericSignals(h)) >= 2

ViaVarnish(h) ==
    "Via" \in GenericSignals(h) /\ Contains(ToLower(h["Via"][1]), "varnish")

\* C10 as stated: with no provider-specific header, whatever generic headers
\* the response carries, every provider's Detection is {false, Low, []}
C10_NoProviderHeaderAllClean ==
    (detections # Nil /\ NoProviderHeader(headers)) => AllClean

\* C10 amended: with no provider-specific header, every provider's Detection
\* is {false, Low, []} provided Via does not name varnish and X-Cache does
\* not report hit or miss next to a second header of the signal set
C10_NoRuleAllClean ==
    (detections # Nil /\ NoProviderHeader(headers)
        /\ ~ViaVarnish(headers) /\ ~CacheCorrelation(headers)) => AllClean

\* X-Cache: HIT as the only signal, and generic Via next to X-Cache
C10_Witness ==
    /\ AllClean /\ NoProviderHeader(headers)
    /\ "X-Cache" \in DOMAIN headers
    /\ Contains(ToLower(headers["X-Cache"][1]), "hit")

C10_WitnessGeneric ==
    /\ AllClean /\ NoProviderHeader(headers)
    /\ {"X-Cache", "Via"} \subseteq DOMAIN headers

-----------------------------------------------------------------------------
(* Properties of the domain analysis                                       *)

FetchFailed(i) == responses[i].Error # ""
ProbeFailed(i) == Contains(responses[i].TCPResults, "\"error\"")

\* the number of times an address occurs in a log
Times(ip, ipLog) == Cardinality({k \in 1..Len(ipLog) : ipLog[k] = ip})

\* N responses in the order of the A records
InRecordOrder ==
    /\ Len(responses) = Len(aRecords)
    /\ \A i \in 1..Len(aRecords) : responses[i].Domain = aRecords[i]

\* what a response records about a failure names no other address
ErrorsStayLocal ==
    \A i \in 1..Len(responses) : \A j \in 1..Len(aRecords) :
        j # i => /\ ~Contains(responses[i].Error, aRecords[j])
                 /\ ~Contains(responses[i].TCPResults, aRecords[j])

C1_WitnessProbe ==
    /\ phase = "Done" /\ Len(aRecords) >= 2
    /\ ~FetchFailed(1) /\ ProbeFailed(1)
    /\ ~FetchFailed(2) /\ ~ProbeFailed(2)

-----------------------------------------------------------------------------
(* The High-tier rules of every provider, in rule order, read off the      *)
(* headers: whether the rule matches, the evidence entry it records and    *)
(* the primary evidence it names.                                          *)

Rule(on, evidence, primary) == [on |-> on, evidence |-> evidence, primary |-> primary]

PresenceRule(h, name) ==
    Rule(Get(h, name) # "", name \o " header present", name \o ": " \o Get(h, name))

WordRule(h, name, word) ==
    Rule(Contains(ToLower(Get(h, name)), word),
         name \o " header contains '" \o word \o "'", name \o ": " \o Get(h, name))

akamaiOrder ==
    << "X-Akamai-Transformed", "X-Akamai-Session-Info", "Akamai-Origin-Hop",
       "X-Akamai-Staging", "X-Akamai-Edge-IP", "X-Akamai-Request-ID",
       "X-Akamai-Config-Log-Detail" >>

HighRules(h, key) ==
    CASE key = "cloudflare" ->
           << PresenceRule(h, "CF-Ray"), PresenceRule(h, "CF-Cache-Status") >>
      [] key = "cloudfront" -> << PresenceRule(h, "X-Amz-Cf-Id") >>
      [] key = "akamai" ->
           [i \in 1..Len(akamaiOrder) |-> PresenceRule(h, akamaiOrder[i])]
      [] key = "fastly" ->
           [i \in 1..Len(fastlyHeaders) |-> PresenceRule(h, fastlyHeaders[i])]
      [] key = "keycdn" ->
           << WordRule(h, "X-Edge-Location", "keycdn"),
              WordRule(h, "X-Cache", "keycdn"), WordRule(h, "Server", "keycdn") >>
      [] key = "maxcdn" ->
           << WordRule(h, "X-Cache", "maxcdn"), WordRule(h, "Server", "maxcdn") >>
      [] key = "incapsula" ->
           << PresenceRule(h, "X-Iinfo"), WordRule(h, "X-CDN", "incapsula"),
              Rule(\E i \in 1..Len(Values(h, "Set-Cookie")) :
                      Contains(ToLower(Values(h, "Set-Cookie")[i]), "visid_incap"),
                   "Incapsula visitor ID cookie present",
                   "Incapsula cookie detected") >>
      [] key = "sucuri" ->
           << PresenceRule(h, "X-Sucuri-ID"), PresenceRule(h, "X-Sucuri-Cache"),
              WordRule(h, "Server", "sucuri") >>

\* the High rules of a provider that match, in rule order
HighHits(h, key) ==
    LET rules == HighRules(h, key)
        F[i \in 0..Len(rules)] ==
            IF i = 0 THEN <<>>
            ELSE IF rules[i].on THEN Append(F[i - 1], rules[i]) ELSE F[i - 1]
    IN  F[Len(rules)]

\* the Detection a short-circuit on the High rule hit leaves
ShortCircuited(d, hit) ==
    /\ d.Detected /\ d.Confidence = "High"
    /\ d.Evidence = <<hit.evidence>>
    /\ d.PrimaryEvidence = hit.primary

\* the providers whose High rules return at once
ReturningProviders == {"cloudflare", "cloudfront", "akamai", "fastly", "keycdn"}

\* C11: for every provider the first High rule that matches short-circuits:
\* the Detection is {true, High}, its PrimaryEvidence is that rule's header
\* and value, and Evidence holds exactly that rule's entry
C11_HighShortCircuits ==
    detections # Nil =>
        \A key \in ProviderKeys :
            HighHits(headers, key) # <<>> =>
                ShortCircuited(detections[1][key], HighHits(headers, key)[1])

\* C11 on the providers whose High rules return, Akamai's map order aside:
\* one matching High rule short-circuits
C11_ReturningShortCircuits ==
    detections # Nil =>
        \A key \in ReturningProviders :
            HighHits(headers, key) # <<>> =>
                \E i \in 1..Len(HighHits(headers, key)) :
                    /\ ShortCircuited(detections[1][key], HighHits(headers, key)[i])
                    /\ key # "akamai" => i = 1

\* CF-Ray: abcd next to a Medium rule of Cloudflare
C11_CFRayDecoded ==
    /\ detections # Nil
    /\ Get(headers, "CF-Ray") = "abcd" /\ Get(headers, "Server") = "cloudflare"
    /\ detections[1]["cloudflare"].PrimaryEvidence = "CF-Ray: abcd"

\* C12: two calls of DetectCDNWithConfidence on identical headers return
\* identical results for every provider (Detected, Confidence, Evidence and
\* PrimaryEvidence), also when several High-tier headers of one provider
\* are present at once
C12_Deterministic ==
    (detections # Nil /\ again # Nil) => again = detections

\* C12 on headers that carry at most one of the Akamai headers
C12_DeterministicButAkamai ==
    (detections # Nil /\ again # Nil /\ Cardinality(akamaiPresent(headers)) <= 1)
        => again = detections

\* two calls that agree on all but Akamai's evidence
C12_OnlyAkamaiDiffers ==
    (detections # Nil /\ again # Nil) =>
        \A key \in ProviderKeys :
            /\ key # "akamai" => again[1][key] = detections[1][key]
            /\ again[1][key].Detected = detections[1][key].Detected
            /\ again[1][key].Confidence = detections[1][key].Confidence

\* what the analysis of one address may produce from its own headers
OwnDetections(h) ==
    {Ptr(DetectCDNWithConfidence(h, first)) : first \in AkamaiFirst(h)}

\* what the probe of one address may leave in its response
OwnProbeResults(ip) ==
    { "{\"placeholder\": \"tcp analysis not yet integrated\"}",
      "{\"tcpResponse\": \"" \o ip \o "\"}",
      "{\"error\": \"error connecting to target: " \o ip \o "\"}" }

\* the response of an address is what its own headers and connection give
OwnResultOnly(i) ==
    LET r == responses[i] IN
    /\ r.Domain = aRecords[i]
    /\ r.Error = "" =>
          /\ r.CDNDetections \in OwnDetections(r.ResponseHeaders)
          /\ r.ServerInfo = Ptr(FingerprintServer(r.ResponseHeaders))
          /\ r.TCPResults \in OwnProbeResults(aRecords[i])
    /\ r.Error # "" => r.CDNDetections = Nil /\ r.ServerInfo = Nil

-----------------------------------------------------------------------------
(* Properties of the header comparison                                     *)

Compared == phase = "Compare" /\ analysis # Nil

\* every other sample has the name with the identical ordered values
SameEverywhere(name) ==
    \A i \in 2..Len(responses) :
        /\ name \in DOMAIN responses[i].ResponseHeaders
        /\ responses[i].ResponseHeaders[name] = responses[1].ResponseHeaders[name]

\* C13: with the first sample as baseline, a baseline name is in the stable
\* map, with its values joined, exactly when every other sample has it with
\* the identical ordered value sequence, and the difference flag is true
\* exactly when some baseline name is excluded
C13_StableIffSameEverywhere ==
    Compared =>
        LET base   == responses[1].ResponseHeaders
            stable == analysis[1].StableHeaders
        IN  /\ DOMAIN stable \subseteq DOMAIN base
            /\ \A name \in DOMAIN base :
                  /\ name \in DOMAIN stable <=> SameEverywhere(name)
                  /\ name \in DOMAIN stable => stable[name] = Join(base[name], ", ")
            /\ analysis[1].DifferentHeadersFound
                  <=> \E name \in DOMAIN base : name \notin DOMAIN stable
            /\ ("Set-Cookie" \in DOMAIN stable
                   /\ base["Set-Cookie"] = <<"a=1", "b=2">>)
                  => stable["Set-Cookie"] = "a=1, b=2"

\* three samples, Server identical in all, Date different in the second:
\* Server is stable, Date is not, and a difference is reported
C13_Witness ==
    /\ Compared /\ Len(responses) = 3
    /\ responses[1].ResponseHeaders = [Server |-> <<"nginx">>, Date |-> <<"d1">>]
    /\ responses[2].ResponseHeaders = [Server |-> <<"nginx">>, Date |-> <<"d2">>]
    /\ responses[3].ResponseHeaders = [Server |-> <<"nginx">>, Date |-> <<"d1">>]
    /\ analysis[1].StableHeaders = [Server |-> "nginx"]
    /\ analysis[1].DifferentHeadersFound

-----------------------------------------------------------------------------
(* The comparison within the analysis of a domain                          *)

\* the responses of the addresses whose fetch succeeded, in order
RECURSIVE Fetched(_)
Fetched(resps) ==
    IF Len(resps) = 0 THEN <<>>
    ELSE IF resps[1].Error = "" THEN <<resps[1]>> \o Fetched(Tail(resps))
    ELSE Fetched(Tail(resps))

\* C27: the stable headers and the difference flag of AnalyzeDomain are
\* determined by the headers of the addresses whose fetch succeeded: an
\* address whose fetch failed is not the baseline and makes no header of
\* the others unstable
C27_FailedFetchIgnored ==
    (analysis # Nil /\ Fetched(responses) # <<>>) =>
        /\ analysis[1].StableHeaders = findStableHeaders(Fetched(responses)).commonHeaders
        /\ analysis[1].DifferentHeadersFound
              = findStableHeaders(Fetched(responses)).differenceFound

\* two addresses answered alike and their Server header is stable
C27_AllFetchedSeen ==
    /\ phase = "Done" /\ Len(responses) = 2 /\ Fetched(responses) = responses
    /\ "Server" \in DOMAIN analysis[1].StableHeaders

-----------------------------------------------------------------------------
(* When the comparison runs                                                *)

\* the addresses whose fetch succeeded have been probed
ProbesFinished ==
    \A i \in 1..Len(responses) :
        ~FetchFailed(i) => Times(responses[i].Domain, probeLog) = 1

\* C23: the comparison runs once per batch and only after every address's
\* header fetch and connection probe has finished; no work on an address of
\* the batch starts after it
C23_ComparedAfterAllWork ==
    analysis # Nil =>
        /\ fetchLog = aRecords /\ Len(responses) = Len(aRecords)
        /\ ProbesFinished

\* C23 for the fetches alone: the comparison runs in the one step that
\* follows the last fetch, its result is never replaced, and no fetch and no
\* change of a response's headers follows it
C23_ComparedOnceAfterFetches ==
    /\ [](analysis # Nil => fetchLog = aRecords /\ Len(responses) = Len(aRecords))
    /\ [][analysis' # analysis => (analysis = Nil /\ phase = "Stable")]_vars
    /\ [][phase # "Stable" => phase' # "Stable" \/ phase = "Fetch"]_vars
    /\ [][analysis # Nil =>
            /\ fetchLog' = fetchLog
            /\ \A i \in 1..Len(responses) :
                  responses'[i].ResponseHeaders = responses[i].ResponseHeaders]_vars

\* the comparison was made and a probe ran after it
C23_ProbedAfterComparison ==
    /\ phase = "Done" /\ analysis # Nil /\ Len(aRecords) = 2
    /\ Len(probeLog) = 2

-----------------------------------------------------------------------------
(* The comparison and the samples it does not read                         *)

\* what findStableHeaders returned, as the pair it returns
ComparisonResult ==
    [ commonHeaders |-> analysis[1].StableHeaders,
      differenceFound |-> analysis[1].DifferentHeadersFound ]

\* the part of a header under the given names
Restrict(h, names) == [n \in (DOMAIN h \cap names) |-> h[n]]

\* a list of samples with the same baseline that differs from responses
\* only in headers whose names the baseline lacks
SameUnderBaselineNames(alt) ==
    /\ Len(alt) = Len(responses)
    /\ alt[1] = responses[1]
    /\ \A i \in 2..Len(alt) :
          Restrict(alt[i].ResponseHeaders, DOMAIN responses[1].ResponseHeaders)
            = Restrict(responses[i].ResponseHeaders,
                       DOMAIN responses[1].ResponseHeaders)

\* C22: a header name that the baseline (first) sample lacks is never
\* evaluated: adding, removing or changing such a header in any other sample
\* leaves the stable map and the difference flag unchanged
C22_AbsentFromBaselineIgnored ==
    Compared =>
        \A alt \in [1..Len(responses) ->
                        {[ResponseHeaders |-> h] : h \in CompareSamples}] :
            SameUnderBaselineNames(alt) => findStableHeaders(alt) = ComparisonResult

\* the second sample carries Date, which the baseline lacks: no difference
C22_Witness ==
    /\ Compared /\ Len(responses) >= 2
    /\ responses[1].ResponseHeaders = [Server |-> <<"nginx">>]
    /\ responses[2].ResponseHeaders = [Server |-> <<"nginx">>, Date |-> <<"d1">>]
    /\ \A i \in 2..Len(responses) : "Server" \in DOMAIN responses[i].ResponseHeaders
    /\ analysis[1].StableHeaders = [Server |-> "nginx"]
    /\ ~analysis[1].DifferentHeadersFound

\* the orders of n samples
Orders(n) == {order \in [1..n -> 1..n] : \A i, j \in 1..n : order[i] = order[j] => i = j}

\* the responses in another order
Reordered(order) == [i \in 1..Len(responses) |-> responses[order[i]]]

\* C28: the comparison is independent of the order of the samples: every
\* permutation of the list gives the same stable map and difference flag
C28_OrderIndependent ==
    Compared =>
        \A order \in Orders(Len(responses)) :
            findStableHeaders(Reordered(order)) = ComparisonResult

\* C28 amended: the stable map is the same for every permutation of the
\* samples, and the difference flag is the same for every permutation that
\* keeps the first sample first
C28_StableMapOrderIndependent ==
    Compared =>
        \A order \in Orders(Len(responses)) :
            /\ findStableHeaders(Reordered(order)).commonHeaders
                  = analysis[1].StableHeaders
            /\ order[1] = 1 =>
                  findStableHeaders(Reordered(order)).differenceFound
                      = analysis[1].DifferentHeadersFound

\* three different samples with a stable header were compared, and another
\* baseline would change the difference flag
C28_Witness ==
    /\ Compared /\ Len(responses) = 3
    /\ responses[1].ResponseHeaders = [Server |-> <<"nginx">>]
    /\ responses[2].ResponseHeaders = [Server |-> <<"nginx">>, Date |-> <<"d1">>]
    /\ responses[3].ResponseHeaders = [Server |-> <<"nginx">>, Date |-> <<"d2">>]
    /\ analysis[1].StableHeaders = [Server |-> "nginx"]
    /\ ~analysis[1].DifferentHeadersFound
    /\ findStableHeaders(Reordered(<<2, 1, 3>>)).differenceFound

-----------------------------------------------------------------------------
(* Properties of the quality assessment                                    *)

Assessed == impl = "quality" /\ pc = "Assessed"

\* the sum of the three latencies of the response assessed
LatencySum ==
    partial[1].ConnectTime + partial[1].WriteLatency + partial[1].ReadLatency

\* C14: the tier is a function of s = connectMs + writeMs + readMs only:
\* s < 50 Excellent, 50 <= s < 150 Good, 150 <= s < 300 Fair, s >= 300 Poor,
\* and always one of these four
C14_TierOfSum ==
    Assessed =>
        LET q == partial[1].ConnectionQuality
            t == LatencySum
        IN  /\ q \in {"Excellent", "Good", "Fair", "Poor"}
            /\ q = "Excellent" <=> t < 50
            /\ q = "Good" <=> (50 <= t /\ t < 150)
            /\ q = "Fair" <=> (150 <= t /\ t < 300)
            /\ q = "Poor" <=> t >= 300

\* sums on the threshold 50, reached in two different ways
C14_Witness ==
    /\ Assessed /\ LatencySum = 50
    /\ partial[1].ConnectTime = 1 /\ partial[1].ReadLatency = 49
    /\ partial[1].ConnectionQuality = "Good"

Rank(q) ==
    CASE q = "Excellent" -> 0 [] q = "Good" -> 1 [] q = "Fair" -> 2 [] q = "Poor" -> 3

\* C15: raising any one of the connect, write or read latency with the other
\* two fixed never lowers the rank of the tier (Excellent < Good < Fair < Poor)
C15_Monotonic ==
    Assessed =>
        LET c == partial[1].ConnectTime
            w == partial[1].WriteLatency
            r == partial[1].ReadLatency
            q == Rank(partial[1].ConnectionQuality)
        IN  \A more \in QualityLatencies :
              /\ more >= c => Rank(assessConnectionQuality(more, w, r)) >= q
              /\ more >= w => Rank(assessConnectionQuality(c, more, r)) >= q
              /\ more >= r => Rank(assessConnectionQuality(c, w, more)) >= q

\* a response rated Fair whose read latency can still rise into Poor
C15_Witness ==
    /\ Assessed /\ partial[1].ConnectionQuality = "Fair"
    /\ partial[1].ReadLatency = 0 /\ partial[1].ConnectTime = 150
    /\ assessConnectionQuality(partial[1].ConnectTime, partial[1].WriteLatency, 300)
          = "Poor"

-----------------------------------------------------------------------------
(* Properties of the fingerprinter                                         *)

Known(field) == field # "Unknown" /\ field # ""

\* the additive score of a ServerInfo
Score(info) ==
    (IF Known(info.ServerType) THEN 30 ELSE 0)
    + (IF Known(info.Version) THEN 25 ELSE 0)
    + (IF Known(info.Platform) THEN 20 ELSE 0)
    + (IF Known(info.PoweredBy) THEN 15 ELSE 0)
    + (IF Known(info.LoadBalancer) THEN 10 ELSE 0)

\* C16: the confidence of a fingerprint is High when the additive score
\* (ServerType 30, Version 25, Platform 20, PoweredBy 15, LoadBalancer 10)
\* is at least 70, Medium when it is at least 40, and Low otherwise
C16_AdditiveConfidence ==
    serverInfo # Nil =>
        serverInfo[1].Confidence =
            IF Score(serverInfo[1]) >= 70 THEN "High"
            ELSE IF Score(serverInfo[1]) >= 40 THEN "Medium" ELSE "Low"

\* type, version and platform known and nothing else: 75, High
C16_Witness ==
    /\ serverInfo # Nil
    /\ serverInfo[1].ServerType = "nginx" /\ serverInfo[1].Version = "1.18.0"
    /\ serverInfo[1].PoweredBy = "Unknown" /\ serverInfo[1].LoadBalancer = "Unknown"
    /\ serverInfo[1].Confidence = "High"

\* FingerprintServer returns the same ServerInfo on the same headers
C12_FingerprintDeterministic ==
    (serverInfo # Nil /\ again # Nil) => again = serverInfo

-----------------------------------------------------------------------------
(* The version of a fingerprint                                            *)

\* the tokens of the families whose version analyzeServerHeader looks for
VersionedTokens == {"nginx", "apache", "iis", "litespeed"}

\* the token of each ServerType
TokenOf(serverType) ==
    CASE serverType = "nginx" -> "nginx"
      [] serverType = "Apache" -> "apache"
      [] serverType = "IIS" -> "iis"
      [] serverType = "LiteSpeed" -> "litespeed"
      [] serverType = "OpenResty" -> "openresty"
      [] serverType = "Caddy" -> "caddy"
      [] OTHER -> ""

\* the 1-based position of the first character after the token
AfterToken(server, token) == Index(ToLower(server), token) + Len(token) + 1

\* the longest run of digits and dots that starts at position from
RunAt(server, from) ==
    LET ends == {q \in (from - 1)..Len(server) :
                    \A p \in from..q : IsVersionChar(Char(server, p))}
    IN  SubSeq(server, from, CHOOSE q \in ends : \A r \in ends : r <= q)

\* the first position at or after from whose character is not in skipped
FirstNot(server, from, skipped) ==
    LET stops == {p \in from..(Len(server) + 1) :
                    p = Len(server) + 1 \/ Char(server, p) \notin skipped}
    IN  CHOOSE p \in stops : \A r \in stops : p <= r

\* the run that trails the token, only '/', '-' and space skipped before it
TrailingVersion(server, token) ==
    RunAt(server, FirstNot(server, AfterToken(server, token), {"/", "-", " "}))

\* the first run after the token, whatever stands before it
FirstVersionAfter(server, token) ==
    LET chars == {Char(server, p) : p \in 1..Len(server)}
    IN  RunAt(server, FirstNot(server, AfterToken(server, token),
                               {c \in chars : ~IsVersionChar(c)}))

ServerHeader == Get(headers, "Server")

\* the versioned families whose token the Server header contains
FamiliesIn(server) == {t \in VersionedTokens : Contains(ToLower(server), t)}

\* C21: the Version is the longest run of digits and dots that trails the
\* matched family token of the Server header, only '/', '-' and space being
\* skipped before it; with any other character between the token and the
\* first digit, or without such a run, the Version is "Unknown"
C21_VersionTrailsToken ==
    (serverInfo # Nil /\ Cardinality(FamiliesIn(ServerHeader)) = 1) =>
        \A token \in FamiliesIn(ServerHeader) :
            serverInfo[1].Version =
                IF TrailingVersion(ServerHeader, token) = "" THEN "Unknown"
                ELSE TrailingVersion(ServerHeader, token)

\* C21 as the loop works: every character that is no digit and no dot is
\* skipped before the run begins
C21_FirstRunAfterToken ==
    (serverInfo # Nil /\ Cardinality(FamiliesIn(ServerHeader)) = 1) =>
        \A token \in FamiliesIn(ServerHeader) :
            serverInfo[1].Version =
                IF FirstVersionAfter(ServerHeader, token) = "" THEN "Unknown"
                ELSE FirstVersionAfter(ServerHeader, token)

\* a version that trails its token behind one separator was extracted
C21_SeparatedSeen ==
    /\ serverInfo # Nil /\ ServerHeader = "Apache/2.4.41 (Win64)"
    /\ serverInfo[1].Version = "2.4.41"

\* a header without a version was analysed
C21_AbsentSeen ==
    /\ serverInfo # Nil /\ ServerHeader = "nginx" /\ serverInfo[1].Version = "Unknown"

\* C30: a known Version was extracted from the token of the family reported
\* as ServerType, also when the Server header holds several family tokens
C30_VersionOfReportedFamily ==
    (serverInfo # Nil /\ Known(serverInfo[1].Version)) =>
        /\ TokenOf(serverInfo[1].ServerType) # ""
        /\ Contains(ToLower(ServerHeader), TokenOf(serverInfo[1].ServerType))
        /\ serverInfo[1].Version =
              FirstVersionAfter(ServerHeader, TokenOf(serverInfo[1].ServerType))

\* the family tokens analyzeServerHeader looks for
FamilyTokens ==
    {"nginx", "apache", "iis", "microsoft", "litespeed", "openresty", "caddy"}

\* C30 on Server headers with the token of one family only
C30_SingleFamily ==
    (serverInfo # Nil /\ Known(serverInfo[1].Version)
        /\ Cardinality({t \in FamilyTokens \ {"microsoft"} :
                           Contains(ToLower(ServerHeader), t)}) = 1) =>
        /\ Contains(ToLower(ServerHeader), TokenOf(serverInfo[1].ServerType))
        /\ serverInfo[1].Version =
              FirstVersionAfter(ServerHeader, TokenOf(serverInfo[1].ServerType))

\* a single family with its version was analysed
C30_SingleFamilySeen ==
    /\ serverInfo # Nil /\ ServerHeader = "nginx/1.18.0"
    /\ serverInfo[1].ServerType = "nginx" /\ serverInfo[1].Version = "1.18.0"

-----------------------------------------------------------------------------
(* The rules below the High tier                                           *)

\* the rules of a provider that are not High-tier, in rule order
MediumRules(h, key) ==
    CASE key = "cloudflare" ->
           << PresenceRule(h, "CF-Connecting-IP"), PresenceRule(h, "CF-IPCountry"),
              WordRule(h, "Server", "cloudflare") >>
      [] key = "cloudfront" ->
           << WordRule(h, "Via", "cloudfront"), WordRule(h, "X-Cache", "cloudfront"),
              Rule(\E i \in 1..Len(Values(h, "Set-Cookie")) :
                      Contains(Values(h, "Set-Cookie")[i], "AWSALB"),
                   "AWS Load Balancer cookie present", "AWS ALB Cookie detected") >>
      [] key = "akamai" ->
           << PresenceRule(h, "True-Client-IP"), WordRule(h, "Server", "akamai") >>
      [] key = "fastly" ->
           << Rule(Contains(ToLower(Get(h, "X-Served-By")), "cache-")
                      \/ Contains(ToLower(Get(h, "X-Served-By")), "fastly"),
                   "X-Served-By header with cache server pattern",
                   "X-Served-By: " \o Get(h, "X-Served-By")),
              Rule(Contains(Get(h, "X-Timer"), "S")
                      /\ (Contains(Get(h, "X-Timer"), ".")
                            \/ Contains(Get(h, "X-Timer"), ",")),
                   "X-Timer header with Fastly format",
                   "X-Timer: " \o Get(h, "X-Timer")),
              WordRule(h, "Via", "fastly"),
              Rule(Contains(ToLower(Get(h, "Via")), "varnish")
                      /\ ~Contains(ToLower(Get(h, "Via")), "fastly"),
                   "Via header contains 'varnish' (Fastly backend)",
                   "Via: " \o Get(h, "Via")),
              Rule((Contains(ToLower(Get(h, "X-Cache")), "hit")
                        \/ Contains(ToLower(Get(h, "X-Cache")), "miss"))
                      /\ hasFastlyIndicators(h),
                   "X-Cache header with hit/miss pattern and Fastly indicators",
                   "X-Cache: " \o Get(h, "X-Cache")) >>
      [] OTHER -> <<>>

\* the rules below the High tier that match, in rule order
MediumHits(h, key) ==
    LET rules == MediumRules(h, key)
        F[i \in 0..Len(rules)] ==
            IF i = 0 THEN <<>>
            ELSE IF rules[i].on THEN Append(F[i - 1], rules[i]) ELSE F[i - 1]
    IN  F[Len(rules)]

\* C19: for every provider and every response on which no High-tier rule
\* matches, the tier is Medium if at least one Medium-tier rule matches and
\* Low otherwise, each matching Medium rule appends one evidence entry in
\* rule order, and no number of Medium matches raises the tier to High
C19_MediumAccumulates ==
    detections # Nil =>
        \A key \in ProviderKeys :
            HighHits(headers, key) = <<>> =>
                LET d == detections[1][key]
                    hits == MediumHits(headers, key)
                IN  /\ d.Confidence = IF hits # <<>> THEN "Medium" ELSE "Low"
                    /\ d.Evidence = [i \in 1..Len(hits) |-> hits[i].evidence]
                    /\ d.Confidence # "High"

\* two rules below the High tier matched and none of the High tier
C19_Witness ==
    /\ detections # Nil
    /\ \E key \in ProviderKeys :
          /\ HighHits(headers, key) = <<>>
          /\ Len(MediumHits(headers, key)) >= 2
          /\ MediumHits(headers, key)[2].evidence
                \in {"Server header contains 'cloudflare'",
                     "Server header contains 'akamai'"}
          /\ detections[1][key].Confidence = "Medium"
          /\ Len(detections[1][key].Evidence) = 2

-----------------------------------------------------------------------------
(* Fastly's correlation rule                                               *)

FastlySignalSet ==
    {"X-Served-By", "X-Cache", "X-Timer", "Age", "Via", "Cache-Control", "Vary"}

\* the generic signals a response carries
SignalsIn(h) == {name \in FastlySignalSet : Get(h, name) # ""}

\* the X-Cache hit/miss hint
CacheHint(h) ==
    \/ Contains(ToLower(Get(h, "X-Cache")), "hit")
    \/ Contains(ToLower(Get(h, "X-Cache")), "miss")

\* no High rule of Fastly and none of its Medium rules on X-Served-By,
\* X-Timer and Via matches: the result is Low but for the correlation rule
OtherwiseLow(h) ==
    /\ HighHits(h, "fastly") = <<>>
    /\ \A i \in 1..4 : ~MediumRules(h, "fastly")[i].on

ServedByAlone == HeaderOf({ <<"X-Served-By", <<"cache-1">> >> })

ServedByCacheAge ==
    HeaderOf({ <<"X-Served-By", <<"cache-1">> >>, <<"X-Cache", <<"HIT">> >>,
               <<"Age", <<"10">> >> })

\* C20: Fastly's correlation rule promotes an otherwise-Low result to Medium,
\* never to High, when the X-Cache hit/miss hint comes with at least 2 of the
\* generic signals, and leaves Fastly undetected when fewer than 2 of them are
\* present; X-Served-By: cache-1 alone, and the same with X-Cache: HIT and
\* Age: 10 added, both give Fastly detected at tier Medium
C20_CorrelationPromotes ==
    detections # Nil =>
        LET d == detections[1]["fastly"] IN
        /\ (OtherwiseLow(headers) /\ CacheHint(headers)
                /\ Cardinality(SignalsIn(headers)) >= 2)
             => /\ d.Detected /\ d.Confidence = "Medium"
                /\ d.Evidence =
                     <<"X-Cache header with hit/miss pattern and Fastly indicators">>
        /\ (OtherwiseLow(headers) /\ Cardinality(SignalsIn(headers)) < 2)
             => /\ ~d.Detected /\ d.Confidence = "Low" /\ d.Evidence = <<>>
        /\ (HighHits(headers, "fastly") = <<>> /\ CacheHint(headers)
                /\ Cardinality(SignalsIn(headers)) >= 2)
             => d.Detected /\ d.Confidence = "Medium"
        /\ headers \in {ServedByAlone, ServedByCacheAge}
             => d.Detected /\ d.Confidence = "Medium"

\* X-Cache: HIT with Age next to it was promoted by the correlation alone
C20_Witness ==
    /\ detections # Nil
    /\ OtherwiseLow(headers) /\ CacheHint(headers)
    /\ SignalsIn(headers) = {"X-Cache", "Age"}
    /\ detections[1]["fastly"].Detected
    /\ detections[1]["fastly"].Confidence = "Medium"

\* the three-header example was analysed: both the X-Served-By rule and the
\* correlation rule left their evidence
C20_ExampleSeen ==
    /\ detections # Nil /\ headers = ServedByCacheAge
    /\ Len(detections[1]["fastly"].Evidence) = 2

\* the hint alone was analysed and left Fastly undetected
C20_HintAloneSeen ==
    /\ detections # Nil /\ SignalsIn(headers) = {"X-Cache"} /\ CacheHint(headers)
    /\ OtherwiseLow(headers) /\ ~detections[1]["fastly"].Detected

-----------------------------------------------------------------------------
(* Properties of the keep-alive extraction                                 *)

KeepAliveValue == getHeaderValue(headers, "Keep-Alive")

\* the values the timeout parameter may have in a Keep-Alive value
TimeoutOf(value) ==
    {t \in TimeoutSamples :
        \/ value = "timeout=" \o t \/ value = "timeout=" \o t \o " "
        \/ \E m \in MaxSamplesOfMax :
              \/ value = "timeout=" \o t \o ", max=" \o m
              \/ value = "max=" \o m \o ", timeout=" \o t}

\* C18: ExtractKeepAliveTimeout returns exactly the value of the timeout
\* parameter of the Keep-Alive header ("60" for "timeout=60" and for
\* "timeout=60, max=100") and "Not Defined" when there is no such parameter
C18_TimeoutExtracted ==
    keepAliveTimeout # Nil =>
        IF TimeoutOf(KeepAliveValue) = {}
        THEN keepAliveTimeout[1] = "Not Defined"
        ELSE keepAliveTimeout[1] \in TimeoutOf(KeepAliveValue)

\* C18 on the values whose timeout parameter is the only one
C18_LoneTimeoutExtracted ==
    (keepAliveTimeout # Nil
        /\ \A m \in MaxSamplesOfMax : ~Contains(KeepAliveValue, "max=" \o m))
    => IF TimeoutOf(KeepAliveValue) = {}
       THEN keepAliveTimeout[1] = "Not Defined"
       ELSE keepAliveTimeout[1] \in TimeoutOf(KeepAliveValue)

\* "timeout=60" gave "60"
C18_LoneTimeoutSeen ==
    /\ keepAliveTimeout = Ptr("60") /\ KeepAliveValue = "timeout=60"

=============================================================================
